---------------------------- MODULE Spec2Model ----------------------------
(***************************************************************************)
(* A model of the casper-node execution engine: the wasm Runtime (host     *)
(* functions, nested contract calls, native system contracts, the gas      *)
(* counter, access rights and the host buffer), the Executor entry points  *)
(* and the commit of transforms to global state.                           *)
(***************************************************************************)
EXTENDS Integers, Sequences, FiniteSets, TLC

(***************************************************************************)
(* Bounds of the exploration.                                              *)
(***************************************************************************)
MaxStackHeight == 3
MaxSteps == 3
GasLimit == 6
MaxSpend == 2

(***************************************************************************)
(* Costs taken from the engine configuration tables.                       *)
(***************************************************************************)
HostCost == 1
SystemCallCost == 2

(***************************************************************************)
(* URefs and access rights.  A URef is <<addr, rights>>; the access        *)
(* rights of a context are a set of <<addr, bit>> pairs.                   *)
(***************************************************************************)
RWA == {"R", "W", "A"}
WRITE == {"W"}
MainPurse == "main"

\* RuntimeContext::validate_uref: ok iff the context holds every bit of the URef.
validate_uref(rights, uref) == \A b \in uref[2] : <<uref[1], b>> \in rights

\* the URefs of a set spelt out as access rights (AccessRights::extend)
RightsOf(urefs) == UNION {{<<u[1], b>> : b \in u[2]} : u \in urefs}

access_rights_extend(rights, urefs) == rights \cup RightsOf(urefs)

\* utils::attenuate_uref_in_args: the URefs of `addr` are masked down to `mask`
attenuate_uref_in_args(args, addr, mask) ==
    {IF u[1] = addr THEN <<u[1], u[2] \cap mask>> ELSE u : u \in args}

(***************************************************************************)
(* The world: the contracts stored in global state.                        *)
(***************************************************************************)
SystemContracts == {"mint", "handle_payment", "auction"}
UserContracts == {"cA", "cB"}
ContractHashes == SystemContracts \cup UserContracts

\* SystemContractRegistry lookup
is_system_contract(key) == key \in SystemContracts

\* the package a contract belongs to
PackageOf(h) ==
    CASE h \in UserContracts -> "pkA"
      [] OTHER -> "pkSys"

\* versions of a package: version number -> contract hash
Versions(pkg) ==
    CASE pkg = "pkA" -> [v \in {1, 2} |-> IF v = 1 THEN "cA" ELSE "cB"]
      [] OTHER -> [v \in {1} |-> "mint"]

\* disabled versions of a package; system contract hashes are disabled at
\* upgrade points
DisabledVersions(pkg) ==
    CASE pkg = "pkA" -> {2}
      [] OTHER -> {1}

\* ContractPackage::is_contract_enabled
is_contract_enabled(h) ==
    \A v \in DOMAIN Versions(PackageOf(h)) :
        Versions(PackageOf(h))[v] = h => v \notin DisabledVersions(PackageOf(h))

\* entry points of a contract: name -> entry point type ("none": no such method)
EntryPointType(h, ep) ==
    CASE h \in UserContracts /\ ep = "run" -> "Contract"
      [] h \in UserContracts /\ ep = "sess" -> "Session"
      [] h = "mint" /\ ep \in {"transfer", "create"} -> "Contract"
      [] h = "handle_payment" /\ ep = "get_payment_purse" -> "Contract"
      [] h = "auction" /\ ep = "run_auction" -> "Contract"
      [] OTHER -> "none"

\* Contract::extract_access_rights: the URefs in the contract's named keys
ContractRights(h) ==
    CASE h \in UserContracts -> RightsOf({<<"p1", {"R", "W"}>>})
      [] h = "handle_payment" -> RightsOf({<<"pay", RWA>>})
      [] h = "auction" -> RightsOf({<<"bond", RWA>>})
      [] OTHER -> {}

\* Account::extract_access_rights: the main purse and the URefs in the
\* account's named keys
AccountRights == RightsOf({<<MainPurse, RWA>>, <<"sav", {"A"}>>})

\* the named keys of the account and of a stored contract, as names
AccountNamedKeys == {"a"}
ContractNamedKeys(h) == {"c"}

\* the RuntimeStack the Executor is handed: one CallStackElement, the session
\* of the account
InitialStack == <<[t |-> "Session", hash |-> "none"]>>

(***************************************************************************)
(* Values (CLValue) as carried by the host buffer and returned by calls.   *)
(***************************************************************************)
NoValue == [d |-> "none", u |-> {}]
Unit == [d |-> "unit", u |-> {}]
Val(d, urefs) == [d |-> d, u |-> urefs]

\* serialized length of a value is zero for unit only
IsEmptyValue(v) == v.d = "unit"

(***************************************************************************)
(* State of one execution driven by the Executor.                          *)
(***************************************************************************)
VARIABLES
    kind,       \* which Executor entry point runs
    sysAcct,    \* the originating account is the system account
    stack,      \* the runtimes of the call chain, outermost first
    err,        \* error being propagated out of the call chain, or "none"
    done,       \* the outermost runtime returned Ok
    journal,    \* execution journal of the shared tracking copy
    snapshot,   \* journal of the tracking copy when the Executor was entered
    result,     \* the ExecutionResult
    steps,      \* host function calls made so far
    hfDepth,    \* HostFunctionFlag: depth of host function scopes
    charged,    \* sum of the amounts charged by host calls, opcodes and system calls
    restored,   \* sum of the amounts taken back by set_gas_counter
    lastOp,     \* the last operation and its return code
    retForged   \* a ret passed on a URef the returning frame did not hold

rtVars == <<kind, sysAcct, stack, err, done, journal, snapshot, result, steps,
            hfDepth, charged, restored, lastOp, retForged>>

(***************************************************************************)
(* State of a commit to global state.                                      *)
(***************************************************************************)
VARIABLES
    durable,    \* the tries (by root) present in the durable store
    txnBuf,     \* the tries written inside the open read-write transaction
    txnOpen,    \* a read-write transaction is open
    state_root, \* the root the commit has reached
    effects,    \* the transforms still to apply, in order
    applied,    \* how many transforms this commit has applied
    commitRes,  \* "none", "Ok" or the CommitError
    commits,    \* how many commits were started
    before,     \* the durable store when the commit started
    boundaries, \* the contents of the durable store between commits
    observed    \* the durable store as a concurrent reader last saw it

cmVars == <<durable, txnBuf, txnOpen, state_root, effects, applied, commitRes,
            commits, before, boundaries, observed>>

(***************************************************************************)
(* State of the other components, each checked on its own.                 *)
(***************************************************************************)
VARIABLES
    pp,         \* WasmEngine::preprocess: the module, the config, the outcome
    ts,         \* ScratchTrieStore: the cache, the durable store, the write
    cc,         \* commits in a row and at once: the inputs, the outcomes
    gt,         \* GossipTable: the entry of one data id, the last call
    ab          \* AppendableBlock: the config, the block, the last add

xVars == <<pp, ts, cc, gt, ab>>

VARIABLES
    au,         \* auction: founding validators, active bids, the last call
    gc,         \* precompile: the global cache, its mutex, the calling threads
    tk,         \* CEP18 token: supply, balances, allowances, the last call
    tr,         \* transfer to an account: the caller's access rights, the accounts
    hf          \* contract packages: global state, address generator, context

yVars == <<au, gc, tk, tr, hf>>

vars == <<rtVars, cmVars, xVars, yVars>>

RtOnly == UNCHANGED <<cmVars, xVars, yVars>>
CmOnly == UNCHANGED <<rtVars, xVars, yVars>>

(***************************************************************************)
(* Runtimes.  Each element of `stack` is a Runtime with its context.       *)
(***************************************************************************)
Frame(code, ept, key, hash, rights, args, gas, pc, ep) ==
    [code |-> code,         \* "wasm", "exec", "payment" or a native system contract
     ep |-> ep,             \* name of the entry point that runs
     ep_type |-> ept,       \* entry point type of the context
     key |-> key,           \* base key of the context
     hash |-> hash,         \* contract hash of the call stack element ("acct": session)
     rights |-> rights,     \* access rights of the context
     args |-> args,         \* URefs of the runtime args of the context
     hb |-> NoValue,        \* host buffer
     gas |-> gas,           \* gas counter of the context
     g0 |-> gas,            \* gas counter saved by call_host_* before the native call
     pend |-> "none",       \* the call this runtime waits for
     saved |-> 0,           \* gas counter saved by the helper that made the call
     pc |-> pc,             \* position of native code
     rv |-> NoValue,        \* value a native entry point returns
     nk |-> AccountNamedKeys,  \* named keys of the context
     limit |-> MaxSpend,    \* remaining spending limit of the context
     cs |-> InitialStack]   \* RuntimeStack of the runtime

Top == stack[Len(stack)]
Depth == Len(stack)
SetTop(f) == [stack EXCEPT ![Len(stack)] = f]
Running == result.tag = "none" /\ err = "none" /\ ~done /\ Depth > 0

\* RuntimeContext::charge_gas
charge_gas(gas, amount) ==
    IF gas + amount > GasLimit
    THEN [gas |-> GasLimit, ok |-> FALSE]
    ELSE [gas |-> gas + amount, ok |-> TRUE]

\* RuntimeContext::put_key on the named keys of the context
put_key(nk, name) == nk \cup {name}

\* a faulty check that takes no session for a system caller
immediate_caller_contract_only(caller) ==
    caller.hash # "acct" /\ is_system_contract(caller.hash)

\* Runtime::is_system_immediate_caller, evaluated in a runtime called by `caller`
is_system_immediate_caller(caller) ==
    IF caller.hash = "acct" THEN sysAcct ELSE is_system_contract(caller.hash)

(***************************************************************************)
(* Runtime::execute_contract up to the point where callee code starts.     *)
(***************************************************************************)
\* ContractPackage::lookup_contract_hash: only enabled versions resolve
lookup_contract_hash(pkg, v) ==
    IF v \in DOMAIN Versions(pkg) /\ v \notin DisabledVersions(pkg)
    THEN Versions(pkg)[v] ELSE "none"

\* ContractPackage::current_contract_version: latest enabled version, 0 if none
current_contract_version(pkg) ==
    LET en == DOMAIN Versions(pkg) \ DisabledVersions(pkg)
    IN IF en = {} THEN 0 ELSE CHOOSE v \in en : \A w \in en : w <= v

\* a faulty check that lets disabled contracts through
IsDisabledCallNever(isSystem, isEnabled) == FALSE

\* the check of the by-hash branch that rejects a disabled contract
IsDisabledCall(isSystem, isEnabled) == ~isSystem /\ ~isEnabled

\* a call target: by contract hash, or by package hash and version (0: latest)
ByHash(h) == [by |-> "hash", hash |-> h, pkg |-> PackageOf(h), ver |-> 0]
ByVersion(pkg, v) == [by |-> "package", hash |-> "none", pkg |-> pkg, ver |-> v]

\* the contract a target designates in the world, whatever its status
TargetHash(id) ==
    IF id.by = "hash" THEN id.hash
    ELSE LET v == IF id.ver = 0 THEN current_contract_version(id.pkg) ELSE id.ver
         IN IF v \in DOMAIN Versions(id.pkg) THEN Versions(id.pkg)[v] ELSE "none"

\* resolution of the target to a contract hash, or the error
ResolveContract(id) ==
    IF id.by = "hash"
    THEN IF IsDisabledCall(is_system_contract(id.hash), is_contract_enabled(id.hash))
         THEN [err |-> "DisabledContract", hash |-> id.hash]
         ELSE [err |-> "none", hash |-> id.hash]
    ELSE LET v == IF id.ver = 0 THEN current_contract_version(id.pkg) ELSE id.ver
         IN IF v = 0 THEN [err |-> "NoActiveContractVersions", hash |-> "none"]
            ELSE IF lookup_contract_hash(id.pkg, v) = "none"
                 THEN [err |-> "InvalidContractVersion", hash |-> "none"]
                 ELSE [err |-> "none", hash |-> lookup_contract_hash(id.pkg, v)]

\* a faulty context key selection that lets a contract call session code
context_key_unchecked(callerType, epType, baseKey, hash) ==
    IF callerType = "Session" /\ epType = "Session" THEN baseKey ELSE hash

\* Runtime::get_context_key_for_contract_call
get_context_key_for_contract_call(callerType, epType, baseKey, hash) ==
    CASE callerType = "Contract" /\ epType = "Session" -> "InvalidContext"
      [] callerType = "Session" /\ epType = "Session" -> baseKey
      [] OTHER -> hash

\* a faulty rule that never attenuates
never_attenuate(isSystemAccount, callerSystem, calleeSystem) == FALSE

\* whether the main purse URefs of the args are attenuated
should_attenuate_urefs(isSystemAccount, callerSystem, calleeSystem) ==
    ~isSystemAccount /\ ~callerSystem /\ ~calleeSystem

\* a faulty rule that never validates
never_validate(callerSystem, calleeSystem) == FALSE

\* whether the URefs of the args are validated against the caller's rights
should_validate_urefs(callerSystem, calleeSystem) ==
    ~callerSystem \/ ~calleeSystem

\* the named keys the callee's context starts with
callee_named_keys(epType, hash) ==
    IF epType = "Session" THEN AccountNamedKeys ELSE ContractNamedKeys(hash)

\* the element execute_contract pushes for the callee
call_stack_element(epType, hash) ==
    [t |-> IF epType = "Session" THEN "StoredSession" ELSE "StoredContract", hash |-> hash]

\* a faulty stack that starts afresh with the callee's element
callee_stack_fresh(callerStack, element) == <<element>>

\* the callee's RuntimeStack: a clone of the caller's with the element pushed
callee_stack(callerStack, element) == Append(callerStack, element)

\* Outcome of execute_contract called by runtime `f` at stack height `depth`:
\* an error, or the context of the callee.
CallOutcome(f, depth, id, ep, args) ==
    LET r == ResolveContract(id)
        ept == EntryPointType(r.hash, ep)
        ck == get_context_key_for_contract_call(f.ep_type, ept, f.key, r.hash)
        callerSys == is_system_contract(f.key)
        calleeSys == is_system_contract(ck)
        cargs == IF should_attenuate_urefs(sysAcct, callerSys, calleeSys)
                 THEN attenuate_uref_in_args(args, MainPurse, WRITE)
                 ELSE args
        base == IF ept = "Session" THEN AccountRights ELSE ContractRights(r.hash)
        fail(e) == [err |-> e, hash |-> r.hash, ept |-> ept, key |-> "none",
                    rights |-> {}, args |-> {}, ep |-> ep, nk |-> {}, cs |-> <<>>]
    IN  IF r.err # "none" THEN fail(r.err)
        ELSE IF ept = "none" THEN fail("NoSuchMethod")
        ELSE IF ck = "InvalidContext" THEN fail("InvalidContext")
        ELSE IF depth >= MaxStackHeight THEN fail("RuntimeStackOverflow")
        ELSE IF should_validate_urefs(callerSys, calleeSys)
                /\ \E u \in cargs : ~validate_uref(f.rights, u)
             THEN fail("ForgedReference")
        ELSE [err |-> "none", hash |-> r.hash, ept |-> ept, key |-> ck,
              rights |-> access_rights_extend(base, cargs), args |-> cargs, ep |-> ep,
              nk |-> callee_named_keys(ept, r.hash),
              cs |-> callee_stack(f.cs, call_stack_element(ept, r.hash))]

(***************************************************************************)
(* Initial states: the Executor has built the outermost Runtime.           *)
(***************************************************************************)
NoResult == [tag |-> "none", journal |-> <<>>, cost |-> 0, error |-> "none"]
NoOp == [op |-> "init", rc |-> "Ok", tgt |-> "-", by |-> "-", ep |-> "-", from |-> "-",
         child |-> "-", keys |-> {}, key |-> [len |-> 0, utf8 |-> TRUE]]
\* the thread of the execution panicked: no ExecutionResult comes back
Panicked == [tag |-> "Panic", journal |-> <<>>, cost |-> 0, error |-> "none"]

\* the URefs a deploy may carry in its runtime args
DeployArgs == {{}, {<<MainPurse, RWA>>}}

\* the journal already holds the effects made before this execution
PreJournal == <<"nonce">>

\* no commit is running: the store holds the empty trie
Keys == {"k1", "k2"}
Absent == [t |-> "none", n |-> 0]
EmptyRoot == [k \in Keys |-> Absent]

\* no module is being preprocessed
NoPreprocess == [module |-> <<>>, config |-> <<>>, out |-> <<>>]

\* no scratch trie store is being written
NoScratch == [children |-> <<>>, cache |-> <<>>, store |-> {}, txn |-> {},
              visit |-> <<>>, phase |-> "none", res |-> "none"]

\* no commits are being compared
NoCompose == [known |-> FALSE, root |-> <<>>, t1 |-> <<>>, t2 |-> <<>>,
              first |-> <<>>, second |-> <<>>, whole |-> <<>>]

\* State::default()
DefaultState == [holders |-> {}, held_by_us |-> FALSE, infected_by_us |-> {},
                 in_flight_count |-> 0]

\* no call of the gossip table was made
NoCall == [op |-> "none", action |-> "none", from |-> "none"]

\* no gossip table
NoTable == [where |-> "none", st |-> DefaultState, expired |-> FALSE,
            infection_target |-> 0, holders_limit |-> 0, last |-> NoCall]

\* no block is being filled
NoBlock == [config |-> <<>>, deploys |-> <<>>, transfers |-> <<>>,
            deploy_and_transfer_set |-> {}, total_gas |-> 0, total_size |-> 0,
            total_approvals |-> 0,
            last |-> [res |-> "none", approvals |-> 0, broken |-> {}, fit |-> FALSE,
                      slack |-> FALSE]]

\* no auction, no precompile call, no token
NoAuction == [founding_validators |-> <<>>, active_bids |-> <<>>,
              last |-> [op |-> "none", res |-> "none"]]
NoCache == [cache |-> <<>>, mutex |-> {}, threads |-> <<>>, compiled |-> <<>>]
NoToken == [total_supply |-> 0, balances |-> <<>>, allowances |-> <<>>,
            last |-> [op |-> "none", res |-> "none"]]

NoTransfer == [rights |-> {}, accounts |-> {}, fresh |-> FALSE,
               last |-> [op |-> "none", res |-> "none", path |-> "none",
                         granted |-> {}]]

NoPackage == [groups |-> {}, urefs |-> 0, versions |-> 0, locked |-> FALSE]
NoHost == [package |-> NoPackage, written |-> {}, address_generator |-> 0,
           rights |-> {}, nk |-> {}, hb |-> "none",
           last |-> [op |-> "none", rc |-> "none"]]

LaterIdle ==
    au = NoAuction /\ gc = NoCache /\ tk = NoToken /\ tr = NoTransfer /\ hf = NoHost

OthersIdle ==
    /\ LaterIdle
    /\ pp = NoPreprocess
    /\ ts = NoScratch
    /\ cc = NoCompose
    /\ gt = NoTable
    /\ ab = NoBlock

CommitIdle ==
    /\ durable = {EmptyRoot}
    /\ txnBuf = {}
    /\ txnOpen = FALSE
    /\ state_root = EmptyRoot
    /\ effects = <<>>
    /\ applied = 0
    /\ commitRes = "none"
    /\ commits = 0
    /\ before = {EmptyRoot}
    /\ boundaries = {{EmptyRoot}}
    /\ observed = {EmptyRoot}

\* Executor::exec, ExecutionKind::Module: the session runs in the account's
\* context with its main purse attenuated in the args
InitModule(a) ==
    /\ kind = "exec_module"
    /\ sysAcct = FALSE
    /\ stack = <<Frame("wasm", "Session", "acct", "acct", AccountRights,
                       attenuate_uref_in_args(a, MainPurse, WRITE), 0, "run", "call")>>

\* Executor::exec, ExecutionKind::Contract
InitContract(a) ==
    /\ kind = "exec_contract"
    /\ sysAcct = FALSE
    /\ stack = <<Frame("exec", "Session", "acct", "acct", AccountRights, a, 0, "start", "-")>>

\* Executor::exec_standard_payment
InitPayment ==
    /\ kind = "standard_payment"
    /\ sysAcct = FALSE
    /\ stack = <<Frame("payment", "Session", "acct", "acct", AccountRights, {}, 0, "start", "pay")>>

\* Executor::call_system_contract: the context is the system contract's own
InitSystemCall(h, sys) ==
    /\ kind = "system_call"
    /\ sysAcct = sys
    /\ stack = <<[Frame("exec", "Contract", h, "acct", ContractRights(h), {}, 0,
                         "start", "-") EXCEPT !.nk = ContractNamedKeys(h)]>>

Init ==
    /\ \/ \E a \in DeployArgs : InitModule(a)
       \/ \E a \in DeployArgs : InitContract(a)
       \/ InitPayment
       \/ \E h \in SystemContracts, sys \in BOOLEAN : InitSystemCall(h, sys)
    /\ err = "none"
    /\ done = FALSE
    /\ journal = PreJournal
    /\ snapshot = PreJournal
    /\ result = NoResult
    /\ steps = 0
    /\ hfDepth = 0
    /\ charged = 0
    /\ restored = 0
    /\ lastOp = NoOp
    /\ retForged = FALSE
    /\ CommitIdle
    /\ OthersIdle

(***************************************************************************)
(* Host functions of a wasm runtime.                                       *)
(***************************************************************************)
WasmTop == Running /\ Top.code = "wasm" /\ Top.pend = "none" /\ Top.pc = "run"
CanStep == steps < MaxSteps

\* the record of an operation and its outcome; calls record their target
Op(op, rc) == [NoOp EXCEPT !.op = op, !.rc = rc]
CallOp(name, id, ep, from) ==
    [NoOp EXCEPT !.op = name, !.tgt = TargetHash(id), !.by = id.by, !.ep = ep,
                 !.from = from]
Outcome(o, rc) == [o EXCEPT !.rc = rc]
\* a return from a callee of entry point type `child`, holding the named keys
\* `keys`, to a caller of type `from`
RetOp(op, rc, from, child, keys) ==
    [NoOp EXCEPT !.op = op, !.rc = rc, !.from = from, !.child = child, !.keys = keys]

\* what no step of a running execution changes
Fixed == UNCHANGED <<kind, sysAcct, snapshot, result>> /\ RtOnly

\* the host function trapped with error e, leaving its runtime as f
Trap(f, e, op) ==
    /\ stack' = SetTop(f)
    /\ err' = e
    /\ lastOp' = Op(op, "trap")

\* Runtime::charge_host_function_call then `body`, which accounts for the
\* charge in `charged`, or the GasLimit trap
Charged(op, body(_)) ==
    LET c == charge_gas(Top.gas, HostCost)
        f == [Top EXCEPT !.gas = c.gas]
    IN  /\ steps' = steps + 1
        /\ IF c.ok
           THEN body(f)
           ELSE /\ Trap(f, "GasLimit", op)
                /\ UNCHANGED <<charged, journal, done, hfDepth, restored, retForged>>

\* a faulty can_write_to_host_buffer that never finds the buffer occupied
can_write_always(hb) == TRUE

\* Runtime::can_write_to_host_buffer
can_write_to_host_buffer(hb) == hb = NoValue

\* Runtime::write_host_buffer: the new buffer and the return code
write_host_buffer(hb, v) ==
    IF hb = NoValue THEN [hb |-> v, rc |-> "Ok"] ELSE [hb |-> hb, rc |-> "HostBufferFull"]

\* the `gas` host function: opcode metering
HostGas ==
    /\ WasmTop /\ CanStep
    /\ Charged("gas", LAMBDA f :
          /\ stack' = SetTop(f)
          /\ lastOp' = Op("gas", "Ok")
          /\ charged' = charged + HostCost
          /\ UNCHANGED <<err, journal, done, hfDepth, restored, retForged>>)
    /\ Fixed

\* casper_read_value: stages the value read in the host buffer
HostReadValue ==
    /\ WasmTop /\ CanStep
    /\ \E found \in BOOLEAN :
         Charged("read_value", LAMBDA f :
            /\ IF ~can_write_to_host_buffer(f.hb)
               THEN stack' = SetTop(f) /\ lastOp' = Op("read_value", "HostBufferFull")
               ELSE IF ~found
               THEN stack' = SetTop(f) /\ lastOp' = Op("read_value", "ValueNotFound")
               ELSE LET w == write_host_buffer(f.hb, Val("gs", {}))
                    IN  /\ stack' = SetTop([f EXCEPT !.hb = w.hb])
                        /\ lastOp' = Op("read_value", w.rc)
            /\ charged' = charged + HostCost
            /\ UNCHANGED <<err, journal, done, hfDepth, restored, retForged>>)
    /\ Fixed

\* casper_write: a write to global state through the tracking copy
HostWrite ==
    /\ WasmTop /\ CanStep
    /\ Charged("write", LAMBDA f :
          /\ stack' = SetTop(f)
          /\ journal' = Append(journal, "w")
          /\ lastOp' = Op("write", "Ok")
          /\ charged' = charged + HostCost
          /\ UNCHANGED <<err, done, hfDepth, restored, retForged>>)
    /\ Fixed

(***************************************************************************)
(* Dictionaries.  casper_dictionary_get and casper_dictionary_put make no  *)
(* call to charge_host_function_call: the engine's binding of the import  *)
(* makes it, before dictionary_get and after dictionary_put.               *)
(***************************************************************************)
\* casper_types::DICTIONARY_ITEM_KEY_MAX_LENGTH in bytes, scaled down
DICTIONARY_ITEM_KEY_MAX_LENGTH == 2

\* the item keys a module passes: the length of the bytes and whether they
\* are UTF-8
DictionaryItemKeys ==
    [len : 1..(DICTIONARY_ITEM_KEY_MAX_LENGTH + 1), utf8 : BOOLEAN]

\* the record of a dictionary operation on item key k
DictOp(op, rc, k) == [Op(op, rc) EXCEPT !.key = k]

\* a faulty length check that lets every item key through
item_key_never_too_long(len) == FALSE

\* casper_dictionary_put: the check of the item key's length
item_key_too_long(len) == len > DICTIONARY_ITEM_KEY_MAX_LENGTH

\* RuntimeContext::dictionary_get and dictionary_put: the error they fail
\* with for seed URef `uref` and an item key of `len` bytes, "Ok" if none
context_dictionary(rights, uref, len) ==
    IF len > DICTIONARY_ITEM_KEY_MAX_LENGTH THEN "DictionaryItemKeyExceedsLength"
    ELSE IF ~validate_uref(rights, uref) THEN "ForgedReference"
    ELSE "Ok"

HostDictionaryGet ==
    /\ WasmTop /\ CanStep
    /\ \E k \in DictionaryItemKeys, found \in BOOLEAN :
         Charged("dictionary_get", LAMBDA f :
            LET c == context_dictionary(f.rights, <<"p1", {"R"}>>, k.len)
                w == write_host_buffer(f.hb, Val("dict", {}))
                Answer(rc) == /\ lastOp' = DictOp("dictionary_get", rc, k)
                              /\ stack' = SetTop(f)
                              /\ UNCHANGED err
            IN  /\ IF ~can_write_to_host_buffer(f.hb) THEN Answer("HostBufferFull")
                   ELSE IF ~k.utf8 THEN Answer("InvalidDictionaryItemKey")
                   ELSE IF c # "Ok"
                   THEN /\ err' = c
                        /\ lastOp' = DictOp("dictionary_get", "trap", k)
                        /\ stack' = SetTop(f)
                   ELSE IF ~found THEN Answer("ValueNotFound")
                   ELSE /\ stack' = SetTop([f EXCEPT !.hb = w.hb])
                        /\ lastOp' = DictOp("dictionary_get", w.rc, k)
                        /\ UNCHANGED err
                /\ charged' = charged + HostCost
                /\ UNCHANGED <<journal, done, hfDepth, restored, retForged>>)
    /\ Fixed

\* a faulty binding that charges before it calls dictionary_put
charge_first(answered, ok) == ok

\* the binding of casper_dictionary_put: whether the body of dictionary_put
\* runs, given that it would answer (not trap) and that the charge succeeds
charge_after(answered, ok) == TRUE

HostDictionaryPut ==
    /\ WasmTop /\ CanStep
    /\ steps' = steps + 1
    /\ \E k \in DictionaryItemKeys :
         LET c == context_dictionary(Top.rights, <<"p1", {"W"}>>, k.len)
             g == charge_gas(Top.gas, HostCost)
             f == [Top EXCEPT !.gas = g.gas]
             rc == IF item_key_too_long(k.len) THEN "DictionaryItemKeyExceedsLength"
                   ELSE IF ~k.utf8 THEN "InvalidDictionaryItemKey"
                   ELSE IF c # "Ok" THEN "trap"
                   ELSE "Ok"
             runs == charge_after(rc # "trap", g.ok)
         IN  IF runs /\ rc = "trap"
             THEN /\ err' = c
                  /\ lastOp' = DictOp("dictionary_put", "trap", k)
                  /\ UNCHANGED <<stack, journal, charged>>
             ELSE /\ stack' = SetTop(f)
                  /\ journal' = IF runs /\ rc = "Ok" THEN Append(journal, "dict")
                                 ELSE journal
                  /\ IF g.ok
                     THEN /\ lastOp' = DictOp("dictionary_put", rc, k)
                          /\ charged' = charged + HostCost
                          /\ UNCHANGED err
                     ELSE /\ lastOp' = DictOp("dictionary_put", "trap", k)
                          /\ err' = "GasLimit"
                          /\ UNCHANGED charged
    /\ UNCHANGED <<done, hfDepth, restored, retForged>>
    /\ Fixed

\* casper_get_named_arg: neither the function nor its binding charges gas
HostGetNamedArg ==
    /\ WasmTop /\ CanStep
    /\ steps' = steps + 1
    /\ \E present \in BOOLEAN :
         lastOp' = Op("get_named_arg", IF present THEN "Ok" ELSE "MissingArgument")
    /\ UNCHANGED <<stack, err, journal, charged, done, hfDepth, restored, retForged>>
    /\ Fixed

\* a faulty constructor that hands the caller's buffer to the new runtime
shared_host_buffer(callerHb) == callerHb

\* the host buffer of a runtime made for a call: Arc::new(Mutex::new(None))
new_host_buffer(callerHb) == NoValue

\* a faulty take that leaves the value in the buffer
peek_host_buffer(hb) == [hb |-> hb, v |-> hb]

\* Runtime::take_host_buffer
take_host_buffer(hb) == [hb |-> NoValue, v |-> hb]

\* casper_read_host_buffer: takes the buffer, then checks the destination size
HostReadHostBuffer ==
    /\ WasmTop /\ CanStep
    /\ \E fits \in BOOLEAN :
         Charged("read_host_buffer", LAMBDA f :
            LET t == take_host_buffer(f.hb)
            IN  /\ stack' = SetTop([f EXCEPT !.hb = t.hb])
                /\ lastOp' = Op("read_host_buffer",
                                IF t.v = NoValue THEN "HostBufferEmpty"
                                ELSE IF ~fits THEN "BufferTooSmall" ELSE "Ok")
                /\ charged' = charged + HostCost
                /\ UNCHANGED <<err, journal, done, hfDepth, restored, retForged>>)
    /\ Fixed

\* casper_put_key: adds a named key to the context
HostPutKey ==
    /\ WasmTop /\ CanStep
    /\ Charged("put_key", LAMBDA f :
          /\ stack' = SetTop([f EXCEPT !.nk = put_key(f.nk, "k")])
          /\ lastOp' = Op("put_key", "Ok")
          /\ charged' = charged + HostCost
          /\ UNCHANGED <<err, journal, done, hfDepth, restored, retForged>>)
    /\ Fixed

\* casper_revert
HostRevert ==
    /\ WasmTop /\ CanStep
    /\ Charged("revert", LAMBDA f :
          /\ Trap(f, "Revert", "revert")
          /\ charged' = charged + HostCost
          /\ UNCHANGED <<journal, done, hfDepth, restored, retForged>>)
    /\ Fixed

(***************************************************************************)
(* Calls: the caller side of execute_contract.                             *)
(***************************************************************************)
\* a faulty rule that looks at the host function scope only
skip_only_in_scope(caller) == hfDepth > 0

\* Runtime::charge_system_contract_call in a native runtime called by `caller`
SkipSystemCharge(caller) == hfDepth > 0 \/ is_system_immediate_caller(caller)

\* the runtime execute_contract starts for the callee described by outcome o
Callee(f, o) ==
    LET c == IF is_system_contract(o.key)
             THEN Frame(o.key, o.ept, o.key, o.hash, o.rights, o.args, f.gas, "body", o.ep)
             ELSE Frame("wasm", o.ept, o.key, o.hash, o.rights, o.args, f.gas, "run", o.ep)
    IN  [c EXCEPT !.nk = o.nk, !.limit = f.limit, !.cs = o.cs,
                  !.hb = new_host_buffer(f.hb)]

\* Runtime f calls (id, ep, args); `pend` names the caller's continuation.
\* `paid` is what the step has charged so far.  Sets stack, err, charged and
\* lastOp.
Call(f, id, ep, args, pend, name, paid) ==
    LET o == CallOutcome(f, Depth, id, ep, args)
        waiting == [f EXCEPT !.pend = pend, !.saved = f.gas]
        child == Callee(f, o)
        c == charge_gas(child.gas, SystemCallCost)
        op == CallOp(name, id, ep, f.ep_type)
    IN  IF o.err # "none"
        THEN /\ stack' = SetTop(IF pend = "mint_transfer"
                                THEN [f EXCEPT !.pend = "restore", !.saved = f.gas]
                                ELSE f)
             /\ err' = o.err
             /\ lastOp' = Outcome(op, o.err)
             /\ charged' = charged + paid
        ELSE IF child.code = "wasm" \/ SkipSystemCharge(f)
        THEN /\ stack' = Append(SetTop(waiting), child)
             /\ err' = "none"
             /\ lastOp' = Outcome(op, "called")
             /\ charged' = charged + paid
        ELSE /\ stack' = Append(SetTop(waiting), [child EXCEPT !.gas = c.gas])
             /\ err' = IF c.ok THEN "none" ELSE "GasLimit"
             /\ charged' = charged + paid + (IF c.ok THEN SystemCallCost ELSE 0)
             /\ lastOp' = Outcome(op, IF c.ok THEN "called" ELSE "GasLimit")

\* the targets and arguments the explored programs use
HashTargets ==
    {<<"cA", "run">>, <<"cA", "sess">>, <<"cB", "run">>, <<"cB", "sess">>,
     <<"mint", "transfer">>, <<"handle_payment", "get_payment_purse">>,
     <<"auction", "run_auction">>, <<"cA", "nope">>}
VersionTargets ==
    {<<"pkA", 0, "run">>, <<"pkA", 1, "sess">>, <<"pkA", 2, "run">>,
     <<"pkA", 2, "sess">>, <<"pkA", 3, "run">>, <<"pkSys", 1, "transfer">>}
CallArgs == {{}, {<<MainPurse, RWA>>}, {<<"p1", {"R"}>>}}

\* casper_call_contract and casper_call_versioned_contract
HostCall(name, id, ep, args) ==
    /\ WasmTop /\ CanStep
    /\ Charged(name, LAMBDA f :
          /\ IF ~can_write_to_host_buffer(f.hb)
             THEN /\ stack' = SetTop(f)
                  /\ lastOp' = Outcome(CallOp(name, id, ep, f.ep_type), "HostBufferFull")
                  /\ charged' = charged + HostCost
                  /\ UNCHANGED err
             ELSE /\ Call(f, id, ep, args, "call", name, HostCost)
          /\ UNCHANGED <<journal, done, hfDepth, restored, retForged>>)
    /\ Fixed

HostCallContract ==
    \E t \in HashTargets, a \in CallArgs :
        HostCall("call_contract", ByHash(t[1]), t[2], a)

HostCallVersionedContract ==
    \E t \in VersionTargets, a \in CallArgs :
        HostCall("call_versioned_contract", ByVersion(t[1], t[2]), t[3], a)

\* Runtime::call_contract_with_stack made by Executor::exec for a stored
\* contract and by Executor::call_system_contract for a system contract
StoredTargets == {<<"cA", "run">>, <<"cA", "sess">>, <<"cB", "run">>}
SystemTargets ==
    {<<"mint", "transfer">>, <<"mint", "create">>,
     <<"handle_payment", "get_payment_purse">>, <<"auction", "run_auction">>}
SystemArgs == {{}, {<<MainPurse, RWA>>, <<"p2", {"A"}>>}}

ExecCall ==
    /\ Running /\ Top.code = "exec" /\ Top.pc = "start"
    /\ \E t \in StoredTargets \cup SystemTargets, a \in DeployArgs \cup SystemArgs :
          /\ IF kind = "exec_contract"
             THEN t \in StoredTargets /\ a = Top.args
             ELSE t \in SystemTargets /\ t[1] = Top.key /\ a \in SystemArgs
          /\ LET f == [Top EXCEPT !.pc = "called"]
             IN Call(f, ByHash(t[1]), t[2], a, "exec", "call_contract_with_stack", 0)
    /\ UNCHANGED <<journal, done, hfDepth, restored, retForged, steps>>
    /\ Fixed

(***************************************************************************)
(* Transfers and purses: host functions that call the mint.                *)
(***************************************************************************)
TransferSources == {<<MainPurse, RWA>>, <<"p1", {"R", "W"}>>}
TransferTarget == <<"sav", {"A"}>>

\* Runtime::mint_transfer: validates the source, saves the gas counter and
\* calls the mint; the counter is put back when the call has returned
mint_transfer(f, source, target, paid) ==
    IF ~validate_uref(f.rights, source)
    THEN /\ stack' = SetTop(f)
         /\ err' = "ForgedReference"
         /\ lastOp' = Op("mint_transfer", "ForgedReference")
         /\ charged' = charged + paid
    ELSE Call(f, ByHash("mint"), "transfer", {source, target}, "mint_transfer",
              "mint_transfer", paid)

\* casper_transfer_from_purse_to_purse
HostTransferFromPurseToPurse ==
    /\ WasmTop /\ CanStep
    /\ \E src \in TransferSources :
         Charged("transfer_from_purse_to_purse", LAMBDA f :
            /\ mint_transfer(f, src, TransferTarget, HostCost)
            /\ UNCHANGED <<journal, done, hfDepth, restored, retForged>>)
    /\ Fixed

\* casper_create_purse, through Runtime::create_purse and Runtime::mint_create:
\* the mint is called inside a host function scope
HostCreatePurse ==
    /\ WasmTop /\ CanStep
    /\ Charged("create_purse", LAMBDA f :
          /\ LET o == CallOutcome(f, Depth, ByHash("mint"), "create", {})
                 op == CallOp("mint_create", ByHash("mint"), "create", f.ep_type)
             IN IF o.err # "none"
                THEN /\ stack' = SetTop(f)
                     /\ err' = o.err
                     /\ lastOp' = Outcome(op, o.err)
                     /\ UNCHANGED hfDepth
                ELSE /\ stack' = Append(SetTop([f EXCEPT !.pend = "mint_create"]),
                                        Callee(f, o))
                     /\ err' = "none"
                     /\ lastOp' = Outcome(op, "called")
                     /\ hfDepth' = hfDepth + 1
          /\ charged' = charged + HostCost
          /\ UNCHANGED <<journal, done, restored, retForged>>)
    /\ Fixed

(***************************************************************************)
(* Native system contracts: call_host_mint, call_host_handle_payment and   *)
(* call_host_auction run the entry point in a runtime of their own.        *)
(***************************************************************************)
NativeTop == Running /\ Top.code \in SystemContracts /\ Top.pend = "none"

\* mint entry points.  A transfer of one mote out of the account's main purse
\* for an account other than the system's is spent from the remaining
\* spending limit, and refused by the mint when nothing remains.
NativeMint ==
    /\ NativeTop /\ Top.code = "mint" /\ Top.pc = "body"
    /\ LET create == (Top.ep = "create")
           spends == ~create /\ ~sysAcct /\ \E u \in Top.args : u[1] = MainPurse
           refused == spends /\ Top.limit < 1
       IN /\ stack' = SetTop([Top EXCEPT !.pc = "done",
                  !.rv = IF create THEN Val("uref", {<<"p2", RWA>>})
                         ELSE IF refused THEN Val("unapproved", {}) ELSE Val("res", {}),
                  !.limit = IF spends /\ ~refused THEN Top.limit - 1 ELSE Top.limit])
          /\ journal' = IF refused THEN journal
                        ELSE Append(journal, IF create THEN "purse" ELSE "transfer")
          /\ lastOp' = Op("mint", IF refused THEN "UnapprovedSpendingAmount" ELSE "Ok")
    /\ UNCHANGED <<err, done, steps, hfDepth, charged, restored, retForged>>
    /\ Fixed

\* handle payment: get_payment_purse hands out the payment purse to add to
NativeHandlePayment ==
    /\ NativeTop /\ Top.code = "handle_payment" /\ Top.pc = "body"
    /\ stack' = SetTop([Top EXCEPT !.pc = "done", !.rv = Val("uref", {<<"pay", {"A"}>>})])
    /\ lastOp' = Op("handle_payment", "Ok")
    /\ UNCHANGED <<err, done, journal, steps, hfDepth, charged, restored, retForged>>
    /\ Fixed

\* auction: pays out of its bonding purse to a purse read from global state,
\* by Runtime::mint_transfer
NativeAuctionTransfer ==
    /\ NativeTop /\ Top.code = "auction" /\ Top.pc = "body"
    /\ LET f == [Top EXCEPT !.pc = "paid"]
       IN mint_transfer(f, <<"bond", RWA>>, <<"unb", {"A"}>>, 0)
    /\ UNCHANGED <<done, journal, steps, hfDepth, restored, retForged>>
    /\ Fixed

NativeAuctionDone ==
    /\ NativeTop /\ Top.code = "auction" /\ Top.pc \in {"body", "paid"}
    /\ stack' = SetTop([Top EXCEPT !.pc = "done",
                !.rv = Val(IF Top.pc = "paid" THEN "paid" ELSE "res", {})])
    /\ lastOp' = Op("auction", "Ok")
    /\ UNCHANGED <<err, done, journal, steps, hfDepth, charged, restored, retForged>>
    /\ Fixed

\* Runtime::reverter: the error a system contract's error code becomes
reverter(code) == IF code = "GasLimit" THEN "GasLimit" ELSE "Revert"

\* what call_host_mint, call_host_handle_payment and call_host_auction make
\* of an entry point that failed with error code `code`: the mint's transfer
\* (like reduce_total_supply and mint_into_existing_purse) hands the Result
\* back as a value, the others pass the error to reverter
entry_point_error(contract, ep, code) ==
    IF contract = "mint" /\ ep = "transfer"
    THEN [err |-> "none", rv |-> Val("Err", {})]
    ELSE [err |-> reverter(code), rv |-> NoValue]

\* an entry point runs out of gas inside the system contract, which answers
\* with its error code GasLimit; the gas counter of its runtime is at the limit
NativeGasLimit ==
    /\ NativeTop /\ Top.pc = "body"
    /\ LET o == entry_point_error(Top.code, Top.ep, "GasLimit")
       IN /\ stack' = SetTop([Top EXCEPT !.gas = GasLimit, !.rv = o.rv,
                                          !.pc = IF o.err = "none" THEN "done" ELSE "body"])
          /\ err' = o.err
          /\ lastOp' = Op(Top.code, "GasLimitCode")
    /\ charged' = charged + (GasLimit - Top.gas)
    /\ UNCHANGED <<done, journal, steps, hfDepth, restored, retForged>>
    /\ Fixed

(***************************************************************************)
(* Returns: the callee side ends and execute_contract resumes in the       *)
(* caller.                                                                 *)
(***************************************************************************)
Caller == stack[Depth - 1]
Popped(p) == Append(SubSeq(stack, 1, Depth - 2), p)

\* a faulty return that keeps the caller's own gas counter
keep_gas_counter(callerGas, calleeGas) == callerGas

\* execute_contract copies the callee's gas counter over its own
copy_gas_counter(callerGas, calleeGas) == calleeGas

\* the value of a callee that exited without a trap
clean_exit_value(hb) == IF hb = NoValue THEN Unit ELSE hb

\* a faulty clean exit that never hands the callee's named keys to the caller
named_keys_never_set(callerType, calleeType, callerKeys, calleeKeys) == callerKeys

\* a faulty clean exit that hands over the named keys of any callee
named_keys_always_set(callerType, calleeType, callerKeys, calleeKeys) == calleeKeys

\* the caller's named keys after a clean exit of the callee: session code
\* called by session code hands its named keys to the caller
clean_exit_named_keys(callerType, calleeType, callerKeys, calleeKeys) ==
    IF callerType = "Session" /\ calleeType = "Session" THEN calleeKeys ELSE callerKeys

\* the assert_eq! of the Ret branch: session code that returns to session
\* code must hold the named keys its caller holds
ret_named_keys_agree(callerType, calleeType, callerKeys, calleeKeys) ==
    ~(callerType = "Session" /\ calleeType = "Session") \/ callerKeys = calleeKeys

\* wasm_manage_call_contract_host_buffer: the caller's buffer after the call
manage_call_contract_host_buffer(hb, v) ==
    IF IsEmptyValue(v) THEN [hb |-> hb, rc |-> "Ok"] ELSE write_host_buffer(hb, v)

\* a faulty charge of the native runtime's whole counter
native_gas_total(calleeGas, g0) == calleeGas

\* the gas a native call is charged for in the caller (call_host_mint)
native_gas_delta(calleeGas, g0) == IF calleeGas >= g0 THEN calleeGas - g0 ELSE g0

\* The call of runtime p returned Ok(v): p resumes according to what it waits
\* for.  Sets stack, done, hfDepth and lastOp.
Deliver(p, v, op) ==
    LET q == [p EXCEPT !.pend = "none", !.rv = v]
        w == manage_call_contract_host_buffer(p.hb, v)
        ROp(o, rc) == RetOp(o, rc, p.ep_type, Top.ep_type, Top.nk)
    IN  CASE p.pend = "call" ->
               /\ stack' = Popped([q EXCEPT !.hb = w.hb])
               /\ lastOp' = ROp(op, w.rc)
               /\ UNCHANGED <<done, hfDepth>>
          [] p.pend = "exec" ->
               /\ stack' = Popped(q)
               /\ done' = TRUE
               /\ lastOp' = ROp(op, "Ok")
               /\ UNCHANGED hfDepth
          [] p.pend = "mint_transfer" ->
               /\ stack' = Popped([q EXCEPT !.pend = "restore"])
               /\ lastOp' = ROp(op, "Ok")
               /\ UNCHANGED <<done, hfDepth>>
          [] p.pend = "mint_create" ->
               /\ stack' = Popped(q)
               /\ hfDepth' = hfDepth - 1
               /\ lastOp' = ROp(op, "Ok")
               /\ UNCHANGED done
          [] OTHER ->
               /\ stack' = Popped(q)
               /\ lastOp' = ROp(op, "Ok")
               /\ UNCHANGED <<done, hfDepth>>

\* the session module run by Executor::exec exits without a trap
ModuleExit ==
    /\ WasmTop /\ Depth = 1
    /\ done' = TRUE
    /\ lastOp' = Op("module_exit", "Ok")
    /\ UNCHANGED <<stack, err, journal, steps, hfDepth, charged, restored, retForged>>
    /\ Fixed

\* a called contract exits without a trap: execute_contract returns what its
\* host buffer holds
CleanExit ==
    /\ WasmTop /\ Depth >= 2
    /\ LET p == [Caller EXCEPT !.gas = copy_gas_counter(Caller.gas, Top.gas),
                               !.nk = clean_exit_named_keys(Caller.ep_type, Top.ep_type,
                                                            Caller.nk, Top.nk),
                               !.limit = Top.limit]
       IN Deliver(p, clean_exit_value(Top.hb), "clean_exit")
    /\ UNCHANGED <<err, journal, steps, charged, restored, retForged>>
    /\ Fixed

\* casper_ret: the value replaces the content of the host buffer, its URefs
\* are validated, and the runtime traps with Error::Ret
RetValues == {Val("ret", {}), Val("ret", {<<"p1", {"R"}>>}), Val("ret", {<<"p2", RWA>>}),
              NoValue}

HostRet ==
    /\ WasmTop /\ CanStep
    /\ \E v \in RetValues :
         Charged("ret", LAMBDA f :
            LET g == [f EXCEPT !.hb = v]
            IN  /\ IF \E u \in v.u : ~validate_uref(f.rights, u)
                   THEN Trap(g, "ForgedReference", "ret")
                   ELSE IF Depth = 1
                   THEN Trap(g, "Ret", "ret")
                   ELSE /\ stack' = SetTop([g EXCEPT !.pc = "ret"])
                        /\ lastOp' = Op("ret", "trap")
                        /\ UNCHANGED err
                /\ charged' = charged + HostCost
                /\ UNCHANGED <<journal, done, hfDepth, restored, retForged>>)
    /\ Fixed

\* execute_contract when the callee trapped with Error::Ret
RetReturn ==
    /\ Running /\ Depth >= 2 /\ Top.code = "wasm" /\ Top.pc = "ret"
    /\ LET t == take_host_buffer(Top.hb)
           p == [Caller EXCEPT !.gas = copy_gas_counter(Caller.gas, Top.gas),
                               !.rights = access_rights_extend(Caller.rights, Top.hb.u)]
       IN IF ~ret_named_keys_agree(Caller.ep_type, Top.ep_type, Caller.nk, Top.nk)
          THEN /\ result' = Panicked
               /\ lastOp' = RetOp("ret_return", "panic", Caller.ep_type, Top.ep_type,
                                 Top.nk)
               /\ UNCHANGED <<stack, err, done, hfDepth, retForged>>
          ELSE /\ retForged' = (retForged
                                  \/ \E u \in Top.hb.u : ~validate_uref(Top.rights, u))
               /\ UNCHANGED result
               /\ IF t.v = NoValue
                  THEN /\ stack' = Popped([p EXCEPT !.pend = "none"])
                       /\ err' = "ExpectedReturnValue"
                       /\ lastOp' = RetOp("ret_return", "ExpectedReturnValue",
                                          Caller.ep_type, Top.ep_type, Top.nk)
                       /\ UNCHANGED <<done, hfDepth>>
                  ELSE /\ Deliver(p, t.v, "ret_return")
                       /\ UNCHANGED err
    /\ UNCHANGED <<journal, steps, charged, restored>>
    /\ UNCHANGED <<kind, sysAcct, snapshot>> /\ RtOnly

\* call_host_mint, call_host_handle_payment, call_host_auction when the native
\* entry point returned Ok: the caller is charged the gas the native runtime
\* used and receives the URefs of the returned value
NativeReturn ==
    /\ NativeTop /\ Top.pc = "done" /\ Depth >= 2
    /\ LET c == charge_gas(Caller.gas, native_gas_delta(Top.gas, Top.g0))
           p == [Caller EXCEPT !.gas = c.gas,
                               !.rights = access_rights_extend(Caller.rights, Top.rv.u),
                               !.limit = IF Top.code = "mint" THEN Top.limit
                                         ELSE Caller.limit]
       IN IF c.ok
          THEN /\ Deliver(p, Top.rv, "native_return")
               /\ UNCHANGED err
          ELSE /\ stack' = Popped([Caller EXCEPT !.gas = c.gas,
                      !.pend = IF Caller.pend = "mint_transfer" THEN "restore" ELSE "none"])
               /\ err' = "GasLimit"
               /\ hfDepth' = IF Caller.pend = "mint_create" THEN hfDepth - 1 ELSE hfDepth
               /\ lastOp' = Op("native_return", "GasLimit")
               /\ UNCHANGED done
    /\ UNCHANGED <<journal, steps, charged, restored, retForged>>
    /\ Fixed

\* Runtime::mint_transfer after the call: set_gas_counter(gas_counter)
HelperRestore ==
    /\ result.tag = "none" /\ Depth >= 1 /\ Top.pend = "restore"
    /\ stack' = SetTop([Top EXCEPT !.gas = Top.saved, !.pend = "none"])
    /\ restored' = restored + (Top.gas - Top.saved)
    /\ lastOp' = Op("restore", "Ok")
    /\ UNCHANGED <<err, done, journal, steps, hfDepth, charged, retForged>>
    /\ Fixed

\* an error leaves a callee: execute_contract (or call_host_*) hands it on to
\* the caller, which traps in turn
Unwind ==
    /\ result.tag = "none" /\ err # "none" /\ Depth >= 2 /\ Top.pend # "restore"
    /\ LET c == IF Top.code = "wasm"
                THEN [gas |-> copy_gas_counter(Caller.gas, Top.gas), ok |-> TRUE]
                ELSE charge_gas(Caller.gas, native_gas_delta(Top.gas, Top.g0))
       IN /\ stack' = Popped([Caller EXCEPT !.gas = c.gas,
                 !.pend = IF Caller.pend = "mint_transfer" THEN "restore" ELSE "none"])
          /\ err' = IF c.ok THEN err ELSE "GasLimit"
          /\ hfDepth' = IF Caller.pend = "mint_create" THEN hfDepth - 1 ELSE hfDepth
          /\ lastOp' = Op("unwind", IF c.ok THEN err ELSE "GasLimit")
    /\ UNCHANGED <<done, journal, steps, charged, restored, retForged>>
    /\ Fixed

(***************************************************************************)
(* Standard payment run natively in the outermost runtime                  *)
(* (call_host_standard_payment): get the payment purse from handle         *)
(* payment, transfer into it from the main purse, put the gas counter      *)
(* back.                                                                   *)
(***************************************************************************)
PaymentTop == Running /\ Top.code = "payment" /\ Top.pend = "none"

PayGetPurse ==
    /\ PaymentTop /\ Top.pc = "start"
    /\ Call([Top EXCEPT !.pc = "purse"], ByHash("handle_payment"), "get_payment_purse",
            {}, "pay_purse", "call_contract", 0)
    /\ UNCHANGED <<done, journal, steps, hfDepth, restored, retForged>>
    /\ Fixed

PayTransfer ==
    /\ PaymentTop /\ Top.pc = "purse"
    /\ mint_transfer([Top EXCEPT !.pc = "paid"], <<MainPurse, RWA>>, <<"pay", {"A"}>>, 0)
    /\ UNCHANGED <<done, journal, steps, hfDepth, restored, retForged>>
    /\ Fixed

\* call_host_standard_payment after pay: set_gas_counter(gas_counter)
PayRestore ==
    /\ result.tag = "none" /\ Depth = 1 /\ ~done
    /\ Top.code = "payment" /\ Top.pend = "none"
    /\ Top.pc = "paid" \/ (err # "none" /\ Top.pc # "end")
    /\ stack' = SetTop([Top EXCEPT !.gas = Top.g0, !.pc = "end"])
    /\ restored' = restored + (Top.gas - Top.g0)
    /\ done' = (err = "none")
    /\ lastOp' = Op("restore", "Ok")
    /\ UNCHANGED <<err, journal, steps, hfDepth, charged, retForged>>
    /\ Fixed

(***************************************************************************)
(* The ExecutionResult the Executor returns.                               *)
(***************************************************************************)
\* Runtime::into_success and Runtime::into_failure read the journal of the
\* runtime's tracking copy and its gas counter
into_success(j, gas) == [tag |-> "Success", journal |-> j, cost |-> gas, error |-> "none"]
into_failure(j, gas, e) == [tag |-> "Failure", journal |-> j, cost |-> gas, error |-> e]

\* the cost metered for native code: what was charged against the limit
native_cost(e) == IF e = "GasLimit" \/ charged > GasLimit THEN GasLimit ELSE charged

\* the result of exec_standard_payment and of call_system_contract: a failure
\* carries the journal taken before the execution
native_result(e) ==
    IF e = "none"
    THEN [tag |-> "Success", journal |-> journal, cost |-> native_cost(e), error |-> "none"]
    ELSE [tag |-> "Failure", journal |-> snapshot, cost |-> native_cost(e), error |-> e]

Finish ==
    /\ result.tag = "none" /\ Depth = 1 /\ Top.pend = "none"
    /\ done \/ err # "none"
    /\ kind = "standard_payment" => Top.pc = "end"
    /\ result' = IF kind \in {"exec_module", "exec_contract"}
                 THEN IF err = "none"
                      THEN into_success(journal, Top.gas)
                      ELSE into_failure(journal, Top.gas, err)
                 ELSE native_result(err)
    /\ lastOp' = Op("finish", "Ok")
    /\ UNCHANGED <<kind, sysAcct, stack, err, done, journal, snapshot, steps, hfDepth,
                   charged, restored, retForged>>
    /\ RtOnly

Next ==
    \/ HostGas
    \/ HostReadValue
    \/ HostWrite
    \/ HostReadHostBuffer
    \/ HostPutKey
    \/ HostDictionaryGet
    \/ HostDictionaryPut
    \/ HostGetNamedArg
    \/ HostRevert
    \/ HostRet
    \/ HostCallContract
    \/ HostCallVersionedContract
    \/ HostTransferFromPurseToPurse
    \/ HostCreatePurse
    \/ ExecCall
    \/ NativeMint
    \/ NativeHandlePayment
    \/ NativeAuctionTransfer
    \/ NativeAuctionDone
    \/ NativeGasLimit
    \/ ModuleExit
    \/ CleanExit
    \/ RetReturn
    \/ NativeReturn
    \/ HelperRestore
    \/ Unwind
    \/ PayGetPurse
    \/ PayTransfer
    \/ PayRestore
    \/ Finish

Spec == Init /\ [][Next]_vars

(***************************************************************************)
(* Commit of transforms to global state (storage::global_state::commit).   *)
(* A trie is identified by its root, here the map it stores; the store is  *)
(* content-addressed, so writing a trie adds it and removes nothing.       *)
(***************************************************************************)
MaxCommits == 2
IntMod == 3

IntVal(n) == [t |-> "int", n |-> n]
StrVal == [t |-> "str", n |-> 0]

Write(v) == [op |-> "Write", v |-> v]
AddInt(n) == [op |-> "AddInt", v |-> IntVal(n)]
Transforms == {Write(IntVal(1)), Write(StrVal), AddInt(1)}

\* an AdditiveMap holds one transform per key; it is applied in iteration order
EffectSeqs ==
    {<<>>} \cup {<<<<k, t>>>> : k \in Keys, t \in Transforms}
    \cup {e \in {<<<<k1, t1>>, <<k2, t2>>>> :
                    k1 \in Keys, k2 \in Keys, t1 \in Transforms, t2 \in Transforms} :
            e[1][1] # e[2][1]}

\* a root no trie of the store has
UnknownRoot == [k \in Keys |-> StrVal]

\* Transform::apply on a value that was found
apply(t, cur) ==
    CASE t.op = "Write" -> [ok |-> TRUE, v |-> t.v]
      [] t.op = "AddInt" /\ cur.t = "int" ->
            [ok |-> TRUE, v |-> IntVal((cur.n + t.v.n) % IntMod)]
      [] OTHER -> [ok |-> FALSE, v |-> cur]

\* the value the loop of commit writes for (read result, transform), or the error
commit_value(cur, t) ==
    IF cur = Absent
    THEN IF t.op = "Write" THEN [err |-> "none", v |-> t.v]
         ELSE [err |-> "KeyNotFound", v |-> cur]
    ELSE IF apply(t, cur).ok THEN [err |-> "none", v |-> apply(t, cur).v]
         ELSE [err |-> "TransformError", v |-> cur]

\* a faulty early return that flushes the transaction
abort_flushes(store, buf) == store \cup buf

\* an early return of commit drops the transaction: what it wrote is discarded
abort_txn(store, buf) == store

\* Transaction::commit: what the transaction wrote becomes durable
commit_txn(store, buf) == store \cup buf

CommitIdleRuntime ==
    /\ kind = "none"
    /\ sysAcct = FALSE
    /\ stack = <<>>
    /\ err = "none"
    /\ done = FALSE
    /\ journal = <<>>
    /\ snapshot = <<>>
    /\ result = NoResult
    /\ steps = 0
    /\ hfDepth = 0
    /\ charged = 0
    /\ restored = 0
    /\ lastOp = NoOp
    /\ retForged = FALSE

InitCommit == CommitIdle /\ CommitIdleRuntime /\ OthersIdle

\* commit up to the check of the pre-state root: the transaction is created
CommitBegin ==
    /\ ~txnOpen /\ commits < MaxCommits
    /\ \E pre \in durable \cup {UnknownRoot}, eff \in EffectSeqs :
         /\ state_root' = pre
         /\ effects' = eff
         /\ IF pre \in durable
            THEN /\ txnOpen' = TRUE
                 /\ commitRes' = "none"
            ELSE /\ txnOpen' = FALSE
                 /\ commitRes' = "RootNotFound"
    /\ commits' = commits + 1
    /\ applied' = 0
    /\ txnBuf' = {}
    /\ before' = durable
    /\ UNCHANGED <<durable, boundaries, observed>>
    /\ CmOnly

\* one turn of the loop of commit: read, apply, write inside the transaction
CommitApply ==
    /\ txnOpen /\ effects # <<>>
    /\ LET key == Head(effects)[1]
           t == Head(effects)[2]
           r == commit_value(state_root[key], t)
           new_root == [state_root EXCEPT ![key] = r.v]
       IN IF state_root \notin durable \cup txnBuf
          THEN /\ commitRes' = "ReadRootNotFound"
               /\ txnOpen' = FALSE
               /\ durable' = abort_txn(durable, txnBuf)
               /\ txnBuf' = {}
               /\ UNCHANGED <<state_root, effects, applied>>
          ELSE IF r.err # "none"
          THEN /\ commitRes' = r.err
               /\ txnOpen' = FALSE
               /\ durable' = abort_txn(durable, txnBuf)
               /\ txnBuf' = {}
               /\ UNCHANGED <<state_root, effects, applied>>
          ELSE /\ txnBuf' = IF new_root \in durable \cup txnBuf THEN txnBuf
                            ELSE txnBuf \cup {new_root}
               /\ state_root' = new_root
               /\ effects' = Tail(effects)
               /\ applied' = applied + 1
               /\ UNCHANGED <<durable, txnOpen, commitRes>>
    /\ UNCHANGED <<commits, before, boundaries, observed>>
    /\ CmOnly

\* the end of commit: txn.commit() and Ok(state_root)
CommitFinish ==
    /\ txnOpen /\ effects = <<>>
    /\ durable' = commit_txn(durable, txnBuf)
    /\ boundaries' = boundaries \cup {commit_txn(durable, txnBuf)}
    /\ txnBuf' = {}
    /\ txnOpen' = FALSE
    /\ commitRes' = "Ok"
    /\ UNCHANGED <<state_root, effects, applied, commits, before, observed>>
    /\ CmOnly

\* a reader with a read transaction of its own sees the durable store
ReaderRead ==
    /\ observed' = durable
    /\ observed' # observed
    /\ UNCHANGED <<durable, txnBuf, txnOpen, state_root, effects, applied, commitRes,
                   commits, before, boundaries>>
    /\ CmOnly

NextCommit ==
    \/ CommitBegin
    \/ CommitApply
    \/ CommitFinish
    \/ ReaderRead

SpecCommit == InitCommit /\ [][NextCommit]_vars

(***************************************************************************)
(* WasmEngine::preprocess.  A module is described by what the checks look  *)
(* at; 0 stands for a maximum that is not declared.                        *)
(***************************************************************************)
MaxWasmCount == 3

\* the limits preprocess passes to its checks, scaled down
DEFAULT_MAX_TABLE_SIZE == 2
DEFAULT_BR_TABLE_MAX_SIZE == 2
DEFAULT_MAX_GLOBALS == 2
DEFAULT_MAX_PARAMETER_COUNT == 2

WasmModules ==
    [has_memory : BOOLEAN, memory_max : 0..MaxWasmCount,
     tables : {0, 1, 2}, table_initial : {0, MaxWasmCount}, table_max : 0..MaxWasmCount,
     br_table : 1..MaxWasmCount, globals : 1..MaxWasmCount, params : 1..MaxWasmCount]

\* the WasmConfig of the engine: the limits of the defaults, or tighter ones
WasmConfigs ==
    {[max_memory |-> n, max_table_size |-> n, br_table_max_size |-> n,
      max_globals |-> n, max_parameter_count |-> n] : n \in {1, 2}}

\* ensure_table_size_limit: the error, or the table maximum of the module it
\* hands back
ensure_table_size_limit(m, limit) ==
    IF m.tables = 0 THEN [rc |-> "Ok", table_max |-> 0]
    ELSE IF m.tables > 1 THEN [rc |-> "MoreThanOneTable", table_max |-> 0]
    ELSE IF m.table_initial > limit
    THEN [rc |-> "InitialTableSizeExceeded", table_max |-> 0]
    ELSE IF m.table_max = 0 THEN [rc |-> "Ok", table_max |-> limit]
    ELSE IF m.table_max > limit THEN [rc |-> "MaxTableSizeExceeded", table_max |-> 0]
    ELSE [rc |-> "Ok", table_max |-> m.table_max]

\* pwasm_utils::externalize_mem(module, None, max_pages): the maximum of the
\* memory the module imports afterwards
externalize_mem(m, max_pages) == IF m.memory_max = 0 THEN max_pages ELSE m.memory_max

\* WasmEngine::preprocess up to the instrumentation, with
\* ensure_br_table_size_limit, ensure_global_variable_limit and
\* ensure_parameter_limit
preprocess(wasm_config, m) ==
    LET t == ensure_table_size_limit(m, DEFAULT_MAX_TABLE_SIZE)
        Err(e) == [rc |-> e, memory_max |-> 0, table_max |-> 0]
    IN  IF ~m.has_memory THEN Err("MissingMemorySection")
        ELSE IF t.rc # "Ok" THEN Err(t.rc)
        ELSE IF m.br_table > DEFAULT_BR_TABLE_MAX_SIZE THEN Err("BrTableSizeExceeded")
        ELSE IF m.globals > DEFAULT_MAX_GLOBALS THEN Err("TooManyGlobals")
        ELSE IF m.params > DEFAULT_MAX_PARAMETER_COUNT THEN Err("TooManyParameters")
        ELSE [rc |-> "Ok", memory_max |-> externalize_mem(m, wasm_config.max_memory),
              table_max |-> t.table_max]

InitPreprocess ==
    /\ \E m \in WasmModules, c \in WasmConfigs :
          pp = [module |-> m, config |-> c, out |-> <<>>]
    /\ ts = NoScratch /\ cc = NoCompose /\ gt = NoTable /\ ab = NoBlock /\ LaterIdle
    /\ CommitIdle /\ CommitIdleRuntime

Preprocess ==
    /\ pp.module # <<>> /\ pp.out = <<>>
    /\ pp' = [pp EXCEPT !.out = preprocess(pp.config, pp.module)]
    /\ UNCHANGED <<rtVars, cmVars, ts, cc, gt, ab, yVars>>

SpecPreprocess == InitPreprocess /\ [][Preprocess]_vars

(***************************************************************************)
(* ScratchTrieStore::write_root_to_db.  A trie is named by its digest; its *)
(* children are tries of smaller digests, so that the pointers form a dag  *)
(* as hashes do.  The cache holds a trie as "dirty" (written to the        *)
(* scratch store), as "clean" (read through from the durable store) or not *)
(* at all.                                                                 *)
(***************************************************************************)
MaxTries == 3

Digests == 1..MaxTries

\* a set of tries whose child pointers all lead to tries of the set
Closed(children, S) == \A d \in S : children[d] \subseteq S

\* the scratch stores a series of trie writes can leave behind: the durable
\* store is closed, a clean entry was read from the durable store, and a
\* dirty trie points to tries that are dirty too or in the durable store
ScratchStores ==
    {s \in [children : [Digests -> SUBSET Digests],
            cache : [Digests -> {"absent", "clean", "dirty"}],
            store : SUBSET Digests] :
        /\ \A d \in Digests : \A c \in s.children[d] : c < d
        /\ Closed(s.children, s.store)
        /\ \A d \in Digests : s.cache[d] = "clean" => d \in s.store
        /\ \A d \in Digests : s.cache[d] = "dirty" =>
              \A c \in s.children[d] : s.cache[c] = "dirty" \/ c \in s.store}

InitScratch ==
    /\ \E s \in ScratchStores :
          ts = [children |-> s.children, cache |-> s.cache, store |-> s.store,
                txn |-> {}, visit |-> <<>>, phase |-> "idle", res |-> "none"]
    /\ pp = NoPreprocess /\ cc = NoCompose /\ gt = NoTable /\ ab = NoBlock /\ LaterIdle
    /\ CommitIdle /\ CommitIdleRuntime

\* DescendantsIterator::next
next_descendant(rest) == CHOOSE d \in rest : \A e \in rest : d <= e

\* `if let Some((true, child_trie)) = cache.get(&descendant)`
visit_no_children(entry) == FALSE

visit_children(entry) == entry = "dirty"

\* write_root_to_db up to the loop
WriteRootToDb ==
    /\ ts.phase = "idle"
    /\ \E root \in Digests :
          ts' = IF ts.cache[root] = "absent"
                THEN [ts EXCEPT !.phase = "done", !.res = "TrieNotFoundInCache"]
                ELSE IF ts.cache[root] = "clean"
                THEN [ts EXCEPT !.phase = "done", !.res = "Ok"]
                ELSE [ts EXCEPT !.phase = "loop",
                                !.visit = <<[digest |-> root, rest |-> ts.children[root]]>>]
    /\ UNCHANGED <<rtVars, cmVars, pp, cc, gt, ab, yVars>>

\* one turn of `while let Some(..) = tries_to_visit.pop()`
VisitTrie ==
    /\ ts.phase = "loop" /\ ts.visit # <<>>
    /\ LET n      == Len(ts.visit)
           top    == ts.visit[n]
           popped == SubSeq(ts.visit, 1, n - 1)
       IN  IF top.rest # {}
           THEN LET d      == next_descendant(top.rest)
                    pushed == Append(popped, [top EXCEPT !.rest = top.rest \ {d}])
                IN  ts' = [ts EXCEPT !.visit =
                              IF visit_children(ts.cache[d])
                              THEN Append(pushed, [digest |-> d, rest |-> ts.children[d]])
                              ELSE pushed]
           ELSE ts' = [ts EXCEPT !.visit = popped, !.txn = ts.txn \cup {top.digest}]
    /\ UNCHANGED <<rtVars, cmVars, pp, cc, gt, ab, yVars>>

\* txn.commit()
CommitScratch ==
    /\ ts.phase = "loop" /\ ts.visit = <<>>
    /\ ts' = [ts EXCEPT !.store = ts.store \cup ts.txn, !.txn = {},
                        !.phase = "done", !.res = "Ok"]
    /\ UNCHANGED <<rtVars, cmVars, pp, cc, gt, ab, yVars>>

NextScratch == WriteRootToDb \/ VisitTrie \/ CommitScratch

SpecScratch == InitScratch /\ [][NextScratch]_vars

(***************************************************************************)
(* commit as a function of the store, the pre-state root and the effects,  *)
(* applied to two sequences of writes one after the other and to both at   *)
(* once.                                                                   *)
(***************************************************************************)
\* `for (key, transform) in effects.into_iter()` takes one and stops
no_more_effects(eff) == <<>>

\* `for (key, transform) in effects.into_iter()`: the transforms still to come
rest_of_effects(eff) == Tail(eff)

RECURSIVE commit_loop(_, _, _)
\* the loop of commit: the outcome, the root reached, the tries written
commit_loop(state_root_, eff, buf) ==
    IF eff = <<>> THEN [res |-> "Ok", root |-> state_root_, buf |-> buf]
    ELSE LET key == Head(eff)[1]
             r   == commit_value(state_root_[key], Head(eff)[2])
         IN  IF r.err # "none" THEN [res |-> r.err, root |-> state_root_, buf |-> {}]
             ELSE commit_loop([state_root_ EXCEPT ![key] = r.v], rest_of_effects(eff),
                              buf \cup {[state_root_ EXCEPT ![key] = r.v]})

\* commit(environment, store, prestate_hash, effects): the outcome, the
\* post-state root and the store afterwards
commit(store, prestate_hash, eff) ==
    IF prestate_hash \notin store
    THEN [res |-> "RootNotFound", root |-> prestate_hash, store |-> store]
    ELSE LET o == commit_loop(prestate_hash, eff, {})
         IN  [res |-> o.res, root |-> o.root,
              store |-> IF o.res = "Ok" THEN commit_txn(store, o.buf)
                        ELSE abort_txn(store, o.buf)]

Writes == {Write(IntVal(1)), Write(StrVal)}

\* the effects of one AdditiveMap that holds writes only
WriteSeqs == {e \in EffectSeqs : \A i \in 1..Len(e) : e[i][2] \in Writes}

KeysOf(eff) == {eff[i][1] : i \in 1..Len(eff)}

\* the orders in which a map holding the transforms of eff may hand them out
Orders(eff) ==
    {o \in [1..Len(eff) -> {eff[i] : i \in 1..Len(eff)}] :
        \A i, j \in 1..Len(eff) : i # j => o[i] # o[j]}

InitCompose ==
    /\ \E r \in [Keys -> {Absent, IntVal(1), StrVal}], known \in BOOLEAN,
          t1 \in WriteSeqs, t2 \in WriteSeqs :
          /\ KeysOf(t1) \cap KeysOf(t2) = {}
          /\ cc = [known |-> known, root |-> r, t1 |-> t1, t2 |-> t2,
                   first |-> <<>>, second |-> <<>>, whole |-> <<>>]
    /\ pp = NoPreprocess /\ ts = NoScratch /\ gt = NoTable /\ ab = NoBlock /\ LaterIdle
    /\ CommitIdle /\ CommitIdleRuntime

\* commit of t1 at the root, commit of t2 at the root that gave, and commit
\* of one map that holds both
ComposeCommits ==
    /\ cc.root # <<>> /\ cc.first = <<>>
    /\ LET store == IF cc.known THEN {cc.root} ELSE {}
           first == commit(store, cc.root, cc.t1)
       IN  \E o \in Orders(cc.t1 \o cc.t2) :
              cc' = [cc EXCEPT !.first = first,
                               !.second = IF first.res = "Ok"
                                          THEN commit(first.store, first.root, cc.t2)
                                          ELSE first,
                               !.whole = commit(store, cc.root, o)]
    /\ UNCHANGED <<rtVars, cmVars, pp, ts, gt, ab, yVars>>

SpecCompose == InitCompose /\ [][ComposeCommits]_vars

(***************************************************************************)
(* GossipTable, for one data id.  `where` says which of the maps current,  *)
(* finished and paused holds the id; `expired` says that the timeout of    *)
(* its finished or paused entry has passed.                                *)
(***************************************************************************)
MaxPeers == 3
MaxInfectionTarget == 2

Peers == 1..MaxPeers

\* Config::saturation_limit_percent, at most MAX_SATURATION_LIMIT_PERCENT
SaturationLimits == {0, 34, 50}

\* GossipTable::new
new_table(infection_target, saturation_limit_percent) ==
    [NoTable EXCEPT !.infection_target = infection_target,
                    !.holders_limit = (100 * infection_target)
                                        \div (100 - saturation_limit_percent)]

\* State::is_finished
is_finished(st, infection_target, holders_limit) ==
    \/ Cardinality(st.infected_by_us) >= infection_target
    \/ Cardinality(st.holders) >= holders_limit

\* State::action: the state afterwards and the action; `expect` panics when
\* the data is not held and no holder is known
action(st, infection_target, holders_limit, is_new) ==
    IF is_finished(st, infection_target, holders_limit) THEN [st |-> st, act |-> "Noop"]
    ELSE IF st.held_by_us
    THEN IF infection_target > st.in_flight_count
         THEN [st |-> [st EXCEPT !.in_flight_count = infection_target],
               act |-> "ShouldGossip"]
         ELSE [st |-> st, act |-> "Noop"]
    ELSE IF is_new
    THEN [st |-> st, act |-> IF st.holders = {} THEN "panic" ELSE "GetRemainder"]
    ELSE [st |-> st, act |-> "AwaitingRemainder"]

\* purge_finished: a finished or paused entry whose timeout has passed goes
purge_finished(t) ==
    IF t.where \in {"finished", "paused"} /\ t.expired
    THEN [t EXCEPT !.where = "none", !.st = DefaultState, !.expired = FALSE]
    ELSE t

\* the table after a call: where the id is, its state, what was returned
Called(t, where, st, op, act) ==
    [t EXCEPT !.where = where, !.st = st,
              !.expired = IF where = t.where THEN t.expired ELSE FALSE,
              !.last = [op |-> op, action |-> act, from |-> t.where]]

InitGossip ==
    /\ \E i \in 1..MaxInfectionTarget, s \in SaturationLimits : gt = new_table(i, s)
    /\ pp = NoPreprocess /\ ts = NoScratch /\ cc = NoCompose /\ ab = NoBlock /\ LaterIdle
    /\ CommitIdle /\ CommitIdleRuntime

GtOnly == UNCHANGED <<rtVars, cmVars, pp, ts, cc, ab, yVars>>

\* the lookup of the id in `paused` finds nothing
never_paused(t) == FALSE

\* `self.paused.get_mut(data_id)` finds the id
is_paused(t) == t.where = "paused"

NewPartialData ==
    /\ gt.infection_target > 0
    /\ \E holder \in Peers :
         LET t  == purge_finished(gt)
             st == [t.st EXCEPT !.holders = @ \cup {holder}]
             a  == action(st, t.infection_target, t.holders_limit, t.where # "current")
         IN  gt' = IF t.where = "finished"
                   THEN Called(t, "finished", t.st, "new_partial_data", "Noop")
                   ELSE IF is_paused(t)
                   THEN Called(t, "paused", st, "new_partial_data", "Noop")
                   ELSE Called(t, "current", a.st, "new_partial_data", a.act)
    /\ GtOnly

\* GossipTable::new_complete_data
new_complete_data(table, maybe_holder) ==
    LET t  == purge_finished(table)
        st == [t.st EXCEPT !.holders = @ \cup maybe_holder, !.held_by_us = TRUE]
        a  == action(st, t.infection_target, t.holders_limit, t.where # "current")
    IN  IF t.where = "finished"
        THEN Called(t, "finished", t.st, "new_complete_data", "Noop")
        ELSE IF is_paused(t)
        THEN Called(t, "paused", st, "new_complete_data", "Noop")
        ELSE Called(t, "current", a.st, "new_complete_data", a.act)

NewCompleteData ==
    /\ gt.infection_target > 0
    /\ \E maybe_holder \in {{}} \cup {{p} : p \in Peers} :
         gt' = new_complete_data(gt, maybe_holder)
    /\ GtOnly

\* GossipTable::infected, called by we_infected and already_infected
infected(t, peer, by_us, op) ==
    LET st  == [t.st EXCEPT !.holders = @ \cup {peer},
                            !.infected_by_us = IF by_us THEN @ \cup {peer} ELSE @,
                            !.in_flight_count = IF @ > 0 THEN @ - 1 ELSE 0]
        fin == is_finished(st, t.infection_target, t.holders_limit)
        a   == action(st, t.infection_target, t.holders_limit, FALSE)
    IN  IF t.where \in {"current", "paused"} /\ ~t.st.held_by_us
        THEN Called(t, t.where, t.st, op, "Noop")
        ELSE IF t.where = "current"
        THEN IF fin THEN Called(t, "finished", DefaultState, op, "Noop")
             ELSE Called(t, "current", a.st, op, a.act)
        ELSE IF is_paused(t)
        THEN IF fin THEN Called(t, "finished", DefaultState, op, "Noop")
             ELSE Called(t, "paused", st, op, "Noop")
        ELSE Called(t, t.where, t.st, op, "Noop")

Infected ==
    /\ gt.infection_target > 0
    /\ \E peer \in Peers, by_us \in BOOLEAN :
         gt' = infected(gt, peer, by_us,
                        IF by_us THEN "we_infected" ELSE "already_infected")
    /\ GtOnly

\* GossipTable::check_timeout
check_timeout(t, peer) ==
    LET st == [t.st EXCEPT !.in_flight_count = IF @ > 0 THEN @ - 1 ELSE 0]
        a  == action(st, t.infection_target, t.holders_limit, FALSE)
    IN  IF t.where = "current" /\ peer \notin t.st.holders
        THEN Called(t, "current", a.st, "check_timeout", a.act)
        ELSE Called(t, t.where, t.st, "check_timeout", "Noop")

CheckTimeout ==
    /\ gt.infection_target > 0
    /\ \E peer \in Peers : gt' = check_timeout(gt, peer)
    /\ GtOnly

RemoveHolderIfUnresponsive ==
    /\ gt.infection_target > 0
    /\ \E peer \in Peers :
         LET st == IF gt.st.held_by_us THEN gt.st
                   ELSE [gt.st EXCEPT !.holders = @ \ {peer}]
             a  == action(st, gt.infection_target, gt.holders_limit, ~st.held_by_us)
         IN  gt' = IF gt.where = "current"
                   THEN IF ~st.held_by_us /\ st.holders = {}
                        THEN Called(gt, "none", DefaultState,
                                    "remove_holder_if_unresponsive", "Noop")
                        ELSE Called(gt, "current", a.st,
                                    "remove_holder_if_unresponsive", a.act)
                   ELSE IF is_paused(gt)
                   THEN Called(gt, "paused", st, "remove_holder_if_unresponsive", "Noop")
                   ELSE Called(gt, gt.where, gt.st, "remove_holder_if_unresponsive", "Noop")
    /\ GtOnly

Pause ==
    /\ gt.infection_target > 0
    /\ gt' = IF gt.where = "current"
             THEN Called(gt, "paused", [gt.st EXCEPT !.in_flight_count = 0], "pause", "none")
             ELSE Called(gt, gt.where, gt.st, "pause", "none")
    /\ GtOnly

\* resume: a panic of State::action takes the removed entry with it
Resume ==
    /\ gt.infection_target > 0
    /\ LET a == action(gt.st, gt.infection_target, gt.holders_limit, ~gt.st.held_by_us)
       IN  gt' = IF gt.where # "paused"
                 THEN Called(gt, gt.where, gt.st, "resume", "NotPaused")
                 ELSE IF a.act = "panic"
                 THEN Called(gt, "none", DefaultState, "resume", "panic")
                 ELSE Called(gt, "current", a.st, "resume", a.act)
    /\ GtOnly

\* Instant::now() passes the timeout of the finished or paused entry
TimeoutPasses ==
    /\ gt.where \in {"finished", "paused"} /\ ~gt.expired
    /\ gt' = [gt EXCEPT !.expired = TRUE, !.last = NoCall]
    /\ GtOnly

NextGossip ==
    \/ NewPartialData
    \/ NewCompleteData
    \/ Infected
    \/ CheckTimeout
    \/ RemoveHolderIfUnresponsive
    \/ Pause
    \/ Resume
    \/ TimeoutPasses

SpecGossip == InitGossip /\ [][NextGossip]_vars

(***************************************************************************)
(* The gossip requests of one data id held by this node.  The gossiper     *)
(* sends a request to as many peers as ShouldGossip counts, none of them a *)
(* known holder, and sets a timer for each; the peer answers (at any time, *)
(* more than once) and the timer fires once.  `outstanding` holds the      *)
(* peers whose request was neither answered nor timed out.                 *)
(***************************************************************************)
InitRequests ==
    /\ \E i \in 1..MaxInfectionTarget, s \in SaturationLimits :
          gt = [where |-> "none", st |-> DefaultState, expired |-> FALSE,
                infection_target |-> i,
                holders_limit |-> new_table(i, s).holders_limit,
                last |-> NoCall,
                outstanding |-> {}, timers |-> {}, asked |-> {}]
    /\ pp = NoPreprocess /\ ts = NoScratch /\ cc = NoCompose /\ ab = NoBlock /\ LaterIdle
    /\ CommitIdle /\ CommitIdleRuntime

\* how many requests the call that made t of a state with in_flight_count
\* `in_flight` asked for
AskedCount(t, in_flight) ==
    IF t.last.action = "ShouldGossip" THEN t.st.in_flight_count - in_flight ELSE 0

\* the sets of peers the gossiper may pick for `count` requests
Targets(t, count) ==
    LET free == Peers \ (t.st.holders \cup t.timers)
    IN  {ps \in SUBSET free :
            Cardinality(ps) = IF count <= Cardinality(free) THEN count
                              ELSE Cardinality(free)}

\* the requests are sent to the peers ps
Sent(t, ps) ==
    [t EXCEPT !.outstanding = @ \cup ps, !.timers = @ \cup ps, !.asked = @ \cup ps]

Decremented(n) == IF n > 0 THEN n - 1 ELSE 0

\* this node receives or generates the complete data
RequestsNewCompleteData ==
    /\ gt.infection_target > 0
    /\ \E maybe_holder \in {{}} \cup {{p} : p \in Peers} :
         LET t == new_complete_data(gt, maybe_holder)
         IN  \E ps \in Targets(t, AskedCount(t, gt.st.in_flight_count)) :
                gt' = Sent(t, ps)
    /\ GtOnly

\* a peer that was sent a request answers it: we_infected or already_infected
RequestsResponse ==
    /\ gt.infection_target > 0
    /\ \E peer \in gt.asked, by_us \in BOOLEAN :
         LET r == infected(gt, peer, by_us,
                           IF by_us THEN "we_infected" ELSE "already_infected")
             t == [r EXCEPT !.outstanding = @ \ {peer}]
         IN  \E ps \in Targets(t, AskedCount(t, Decremented(gt.st.in_flight_count))) :
                gt' = Sent(t, ps)
    /\ GtOnly

\* the timer of a request fires: check_timeout
RequestsTimeout ==
    /\ gt.infection_target > 0
    /\ \E peer \in gt.timers :
         LET r == check_timeout(gt, peer)
             t == [r EXCEPT !.outstanding = @ \ {peer}, !.timers = @ \ {peer}]
         IN  \E ps \in Targets(t, AskedCount(t, Decremented(gt.st.in_flight_count))) :
                gt' = Sent(t, ps)
    /\ GtOnly

NextRequests == RequestsNewCompleteData \/ RequestsResponse \/ RequestsTimeout

SpecRequests == InitRequests /\ [][NextRequests]_vars

(***************************************************************************)
(* AppendableBlock.  A transaction is its hash, the number of its          *)
(* approvals and what its footprint says: transfer or not, size and gas    *)
(* estimate, expired at the block's timestamp, valid under the config.     *)
(***************************************************************************)
TransactionHashes == {"h1", "h2", "h3"}

\* the TransactionConfig of a validated chainspec: there are at least as
\* many approval slots as transfer and deploy slots
BlockConfigs ==
    {c \in [block_max_transfer_count : 1..2, block_max_standard_count : 1..2,
            block_max_approval_count : 2..5, max_block_size : {3},
            block_gas_limit : {2}] :
        c.block_max_approval_count
            \in {c.block_max_transfer_count + c.block_max_standard_count,
                 c.block_max_transfer_count + c.block_max_standard_count + 1}}

\* is_valid is asked of a transaction that has not expired; the estimates
\* of a transfer are not looked at
BlockTransactions ==
    {tx \in [hash : TransactionHashes, approvals : 1..2, is_transfer : BOOLEAN,
             size_estimate : 1..2, gas_estimate : 1..2,
             expired : BOOLEAN, is_valid : BOOLEAN] :
        /\ tx.expired => tx.is_valid
        /\ tx.is_transfer => tx.size_estimate = 2 /\ tx.gas_estimate = 2}

InitBlock ==
    /\ \E c \in BlockConfigs : ab = [NoBlock EXCEPT !.config = c]
    /\ pp = NoPreprocess /\ ts = NoScratch /\ cc = NoCompose /\ gt = NoTable /\ LaterIdle
    /\ CommitIdle /\ CommitIdleRuntime

\* the approval limit alone: more approvals than approval slots remain
exceeds_approval_count_only(b, additional_approvals) ==
    additional_approvals > b.config.block_max_approval_count - b.total_approvals

\* no approval limit
never_exceeds_approval_limits(b, additional_approvals) == FALSE

would_exceed_approval_limits(b, additional_approvals) ==
    LET remaining_approval_slots ==
            b.config.block_max_approval_count - b.total_approvals
        remaining_deploy_slots ==
            b.config.block_max_transfer_count - Len(b.transfers)
            + b.config.block_max_standard_count - Len(b.deploys)
    IN  additional_approvals > remaining_approval_slots - remaining_deploy_slots + 1

\* the errors of the limits that adding tx to b would break
Broken(b, tx) ==
    {e \in {"Duplicate", "TransferCount", "TransactionCount", "ApprovalCount",
            "BlockSize", "GasLimit"} :
        \/ e = "Duplicate" /\ tx.hash \in b.deploy_and_transfer_set
        \/ e = "TransferCount" /\ tx.is_transfer
              /\ Len(b.transfers) + 1 > b.config.block_max_transfer_count
        \/ e = "TransactionCount" /\ ~tx.is_transfer
              /\ Len(b.deploys) + 1 > b.config.block_max_standard_count
        \/ e = "ApprovalCount"
              /\ b.total_approvals + tx.approvals > b.config.block_max_approval_count
        \/ e = "BlockSize" /\ ~tx.is_transfer
              /\ b.total_size + tx.size_estimate > b.config.max_block_size
        \/ e = "GasLimit" /\ ~tx.is_transfer
              /\ b.total_gas + tx.gas_estimate > b.config.block_gas_limit}

\* the record of an add: what was returned, and what the transaction was to
\* the block it was offered to
Attempt(b, tx, res) ==
    [res |-> res, approvals |-> tx.approvals, broken |-> Broken(b, tx),
     fit |-> ~tx.expired /\ tx.is_valid,
     slack |-> would_exceed_approval_limits(b, tx.approvals)]

\* the block when an add returned an error: nothing but the record of the call
Refused(b, tx, e) == [b EXCEPT !.last = Attempt(b, tx, e)]

\* add for a transfer
AddTransfer ==
    /\ ab.config # <<>>
    /\ \E tx \in BlockTransactions :
         /\ tx.is_transfer
         /\ ab' = IF tx.hash \in ab.deploy_and_transfer_set THEN Refused(ab, tx, "Duplicate")
                  ELSE IF tx.expired THEN Refused(ab, tx, "Expired")
                  ELSE IF ~tx.is_valid THEN Refused(ab, tx, "InvalidTransaction")
                  ELSE IF Len(ab.transfers) = ab.config.block_max_transfer_count
                  THEN Refused(ab, tx, "TransferCount")
                  ELSE IF would_exceed_approval_limits(ab, tx.approvals)
                  THEN Refused(ab, tx, "ApprovalCount")
                  ELSE [ab EXCEPT !.deploy_and_transfer_set = @ \cup {tx.hash},
                                  !.total_approvals = @ + tx.approvals,
                                  !.transfers = Append(@, [hash |-> tx.hash,
                                                           approvals |-> tx.approvals]),
                                  !.last = Attempt(ab, tx, "Ok")]
    /\ UNCHANGED <<rtVars, cmVars, pp, ts, cc, gt, yVars>>

\* add for any other transaction
AddTransaction ==
    /\ ab.config # <<>>
    /\ \E tx \in BlockTransactions :
         /\ ~tx.is_transfer
         /\ ab' = IF tx.hash \in ab.deploy_and_transfer_set THEN Refused(ab, tx, "Duplicate")
                  ELSE IF tx.expired THEN Refused(ab, tx, "Expired")
                  ELSE IF ~tx.is_valid THEN Refused(ab, tx, "InvalidTransaction")
                  ELSE IF Len(ab.deploys) = ab.config.block_max_standard_count
                  THEN Refused(ab, tx, "TransactionCount")
                  ELSE IF would_exceed_approval_limits(ab, tx.approvals)
                  THEN Refused(ab, tx, "ApprovalCount")
                  ELSE IF ab.total_size + tx.size_estimate > ab.config.max_block_size
                  THEN Refused(ab, tx, "BlockSize")
                  ELSE IF ab.total_gas + tx.gas_estimate > ab.config.block_gas_limit
                  THEN Refused(ab, tx, "GasLimit")
                  ELSE [ab EXCEPT !.total_gas = @ + tx.gas_estimate,
                                  !.total_size = @ + tx.size_estimate,
                                  !.total_approvals = @ + tx.approvals,
                                  !.deploy_and_transfer_set = @ \cup {tx.hash},
                                  !.deploys = Append(@, [hash |-> tx.hash,
                                                         approvals |-> tx.approvals]),
                                  !.last = Attempt(ab, tx, "Ok")]
    /\ UNCHANGED <<rtVars, cmVars, pp, ts, cc, gt, yVars>>

NextBlock == AddTransfer \/ AddTransaction

SpecBlock == InitBlock /\ [][NextBlock]_vars

\* every component of xVars is idle
XIdle == pp = NoPreprocess /\ ts = NoScratch /\ cc = NoCompose /\ gt = NoTable
         /\ ab = NoBlock

(***************************************************************************)
(* The auction contract: founding validators and active bids by public     *)
(* key.                                                                    *)
(***************************************************************************)
MaxStake == 2

PublicKeys == {"v1", "v2"}

NoFounder == [known |-> FALSE, staked_amount |-> 0, funds_locked |-> FALSE]
NoBid == [known |-> FALSE, bid_amount |-> 0]

FoundingValidators ==
    {NoFounder} \cup [known : {TRUE}, staked_amount : 0..MaxStake, funds_locked : BOOLEAN]

ActiveBids == {NoBid} \cup [known : {TRUE}, bid_amount : 0..MaxStake]

InitAuction ==
    /\ \E f \in [PublicKeys -> FoundingValidators], b \in [PublicKeys -> ActiveBids] :
          au = [founding_validators |-> f, active_bids |-> b,
                last |-> [op |-> "none", res |-> "none"]]
    /\ gc = NoCache /\ tk = NoToken /\ tr = NoTransfer /\ hf = NoHost
    /\ XIdle /\ CommitIdle /\ CommitIdleRuntime

\* the record of a call of withdraw_bid
Withdrawn(public_key, quantity, res, new_quantity) ==
    [op |-> "withdraw_bid", public_key |-> public_key, quantity |-> quantity,
     res |-> res, new_quantity |-> new_quantity]

\* withdraw_bid: the amount left is computed from the entry of the map that
\* was read, and the map is written back as it was read; unbond is the mint's
WithdrawBid ==
    /\ au.founding_validators # <<>>
    /\ \E public_key \in PublicKeys, quantity \in 0..MaxStake, unbond_ok \in BOOLEAN :
         LET founding_validator == au.founding_validators[public_key]
             active_bid == au.active_bids[public_key]
             Return(new_quantity) ==
                 IF unbond_ok THEN Withdrawn(public_key, quantity, "Ok", new_quantity)
                 ELSE Withdrawn(public_key, quantity, "MintError", 0)
         IN  au' = [au EXCEPT
                 !.founding_validators = au.founding_validators,
                 !.active_bids = au.active_bids,
                 !.last =
                    IF founding_validator.known /\ ~founding_validator.funds_locked
                    THEN IF quantity > founding_validator.staked_amount
                         THEN Withdrawn(public_key, quantity, "InvalidQuantity", 0)
                         ELSE Return(founding_validator.staked_amount - quantity)
                    ELSE IF founding_validator.known
                    THEN Withdrawn(public_key, quantity, "ValidatorFundsLocked", 0)
                    ELSE IF ~active_bid.known
                    THEN Withdrawn(public_key, quantity, "BidNotFound", 0)
                    ELSE IF quantity > active_bid.bid_amount
                    THEN Withdrawn(public_key, quantity, "InvalidQuantity", 0)
                    ELSE Return(active_bid.bid_amount - quantity)]
    /\ UNCHANGED <<rtVars, cmVars, xVars, gc, tk, tr, hf>>

SpecAuction == InitAuction /\ [][WithdrawBid]_vars

(***************************************************************************)
(* Runtime::transfer_from_purse_to_account: the access rights of the       *)
(* calling context across a transfer to an existing or to a new account.   *)
(* The mint is called for the new purse and for the transfer; what it      *)
(* answers is an input.                                                    *)
(***************************************************************************)
TargetPurse == "tgt"    \* the main purse of the existing account
NewPurse == "new"       \* the purse the mint creates for a new account
TargetAccounts == {"B", "N"}
CallerRights == SUBSET ({MainPurse, TargetPurse} \X RWA)
AccountSources == {<<MainPurse, RWA>>, <<TargetPurse, {"A"}>>, <<TargetPurse, {"R", "W"}>>}
MintCreateResults == {"Ok", "GasLimit"}
MintTransferResults == {"Ok", "InsufficientFunds", "GasLimit"}

\* the main purse of an account
main_purse(account) == IF account = "B" THEN TargetPurse ELSE NewPurse

\* RuntimeContext::grant_access: the bits of the URef are added; `granted`
\* holds the bits the context did not hold (none: GrantedAccess::PreExisting)
grant_access(rights, uref) ==
    [rights |-> rights \cup RightsOf({uref}),
     granted |-> <<uref[1], {b \in uref[2] : <<uref[1], b>> \notin rights}>>]

\* RuntimeContext::remove_access
remove_access(rights, uref_addr, access_rights) ==
    rights \ {<<uref_addr, b>> : b \in access_rights}

\* a caller that keeps what was granted
keep_granted(rights, granted_access) == rights

\* the end of transfer_from_purse_to_account: access that was newly granted
\* is removed
revoke_granted(rights, granted_access) ==
    IF granted_access[2] # {}
    THEN remove_access(rights, granted_access[1], granted_access[2])
    ELSE rights

\* the outcome of a transfer: the rights of the caller after it, whether the
\* account was written, what was granted meanwhile
Transferred(rights, res, path, granted, written) ==
    [rights |-> rights, res |-> res, path |-> path, granted |-> granted,
     written |-> written]

\* Runtime::mint_transfer and what call_host_mint leaves in the caller: the
\* value the mint returns for a transfer holds no URef
mint_transfer_result(rights, source, answer) ==
    IF ~validate_uref(rights, source) THEN "ForgedReference" ELSE answer

\* Runtime::transfer_to_new_account
transfer_to_new_account(rights, source, enough, created, answer) ==
    IF ~enough THEN Transferred(rights, "InsufficientFunds", "new", {}, FALSE)
    ELSE IF created # "Ok" THEN Transferred(rights, created, "new", {}, FALSE)
    ELSE LET target_purse == <<NewPurse, RWA>>
             with_purse == access_rights_extend(rights, {target_purse})
             transfer_result == mint_transfer_result(with_purse, source, answer)
             after == remove_access(with_purse, target_purse[1], target_purse[2])
         IN  IF source = target_purse
             THEN Transferred(with_purse, "EqualSourceAndTarget", "new", RWA, FALSE)
             ELSE Transferred(after, transfer_result, "new", RWA,
                              transfer_result = "Ok")

\* transfer_from_purse_to_account, for a target that has no account yet (while
\* the purse of the new account is unused) or has one
TransferFromPurseToAccount ==
    /\ tr.accounts # {}
    /\ \E source \in AccountSources, target \in TargetAccounts, enough \in BOOLEAN,
          created \in MintCreateResults, answer \in MintTransferResults :
          /\ target \notin tr.accounts => ~tr.fresh
          /\ LET target_uref == <<main_purse(target), {"A"}>>
                 g == grant_access(tr.rights, target_uref)
                 transfer_result == mint_transfer_result(g.rights, source, answer)
                 t == IF target \notin tr.accounts
                      THEN transfer_to_new_account(tr.rights, source, enough, created,
                                                   answer)
                      ELSE IF <<source[1], {"A"}>> = target_uref
                      THEN Transferred(tr.rights, "Ok", "same", {}, FALSE)
                      ELSE Transferred(revoke_granted(g.rights, g.granted),
                                       transfer_result, "existing", g.granted[2],
                                       FALSE)
             IN  tr' = [rights |-> t.rights,
                        accounts |-> IF t.written THEN tr.accounts \cup {target}
                                     ELSE tr.accounts,
                        fresh |-> tr.fresh \/ (t.path = "new" /\ t.granted # {}),
                        last |-> [op |-> "transfer_from_purse_to_account",
                                  res |-> t.res, path |-> t.path,
                                  granted |-> t.granted]]
    /\ UNCHANGED <<rtVars, cmVars, xVars, au, gc, tk, hf>>

InitTransfer ==
    /\ \E r \in CallerRights :
          tr = [NoTransfer EXCEPT !.rights = r, !.accounts = {"A", "B"}]
    /\ au = NoAuction /\ gc = NoCache /\ tk = NoToken /\ hf = NoHost
    /\ XIdle /\ CommitIdle /\ CommitIdleRuntime

SpecTransfer == InitTransfer /\ [][TransferFromPurseToAccount]_vars

(***************************************************************************)
(* Host functions on contract packages: casper_create_contract_user_group  *)
(* and casper_add_contract_version.  `written` holds the keys written to   *)
(* global state besides the package, addresses are numbered as the         *)
(* address generator hands them out.                                       *)
(***************************************************************************)
MAX_GROUPS == 2         \* contracts::MAX_GROUPS, scaled down
MAX_TOTAL_UREFS == 3    \* contracts::MAX_TOTAL_UREFS, scaled down
MaxAddresses == 4
Labels == {"g1", "g2", "g3"}
ContextKeys == {"pkg"}

\* RuntimeContext::new_unit_uref: a fresh address from the generator, all of
\* its access rights for the context, the unit value written at it
new_unit_uref(h) ==
    LET addr == h.address_generator + 1
    IN  [h EXCEPT !.address_generator = addr,
                  !.rights = h.rights \cup {addr},
                  !.written = h.written \cup {<<"uref", addr>>}]

\* RuntimeContext::new_hash_address: a fresh address from the generator
new_hash_address(h) == [h EXCEPT !.address_generator = h.address_generator + 1]

RECURSIVE new_urefs(_, _)
\* the loop that creates num_new_urefs unit URefs
new_urefs(h, n) == IF n = 0 THEN h ELSE new_urefs(new_unit_uref(h), n - 1)

HostCalled(h, op, rc) == [h EXCEPT !.last = [op |-> op, rc |-> rc]]

\* casper_create_contract_user_group
CreateContractUserGroup ==
    /\ hf.nk # {}
    /\ \E label \in Labels, num_new_urefs \in 0..2 :
          /\ hf.address_generator + num_new_urefs <= MaxAddresses
          /\ LET op == "create_contract_user_group"
                 groups == hf.package.groups
                 created == new_urefs(hf, num_new_urefs)
                 package == [hf.package EXCEPT
                                !.groups = groups \cup {label},
                                !.urefs = hf.package.urefs + num_new_urefs]
             IN  hf' = IF label \in groups
                       THEN HostCalled(hf, op, "GroupAlreadyExists")
                       ELSE IF Cardinality(groups) >= MAX_GROUPS
                       THEN HostCalled(hf, op, "MaxGroupsExceeded")
                       ELSE IF hf.package.urefs + num_new_urefs > MAX_TOTAL_UREFS
                       THEN HostCalled(hf, op, "MaxTotalURefsExceeded")
                       ELSE IF hf.hb # "none"
                       THEN HostCalled(created, op, "HostBufferFull")
                       ELSE HostCalled([created EXCEPT !.hb = "urefs",
                                                       !.package = package],
                                       op, "Ok")
    /\ UNCHANGED <<rtVars, cmVars, xVars, au, gc, tk, tr>>

\* casper_add_contract_version
AddContractVersion ==
    /\ hf.nk # {}
    /\ \E output_fits \in BOOLEAN :
          /\ hf.address_generator + 2 <= MaxAddresses
          /\ LET op == "add_contract_version"
                 contract_wasm_hash == new_hash_address(hf).address_generator
                 h == new_hash_address(new_hash_address(hf))
                 contract_hash == h.address_generator
                 package == [hf.package EXCEPT !.versions = hf.package.versions + 1]
                 stored == [h EXCEPT !.package = package,
                                     !.written = h.written
                                        \cup {<<"wasm", contract_wasm_hash>>,
                                              <<"contract", contract_hash>>}]
             IN  hf' = IF hf.package.locked /\ hf.package.versions > 0
                       THEN HostCalled(hf, op, "LockedContract")
                       ELSE IF ~output_fits
                       THEN HostCalled(stored, op, "BufferTooSmall")
                       ELSE HostCalled(stored, op, "Ok")
    /\ UNCHANGED <<rtVars, cmVars, xVars, au, gc, tk, tr>>

\* casper_read_host_buffer by the guest: the host buffer is taken
TakeHostBuffer ==
    /\ hf.nk # {} /\ hf.hb # "none"
    /\ hf' = HostCalled([hf EXCEPT !.hb = "none"], "read_host_buffer", "Ok")
    /\ UNCHANGED <<rtVars, cmVars, xVars, au, gc, tk, tr>>

InitHost ==
    /\ \E locked \in BOOLEAN, hb \in {"none", "value"} :
          hf = [NoHost EXCEPT !.package.locked = locked, !.hb = hb,
                              !.nk = ContextKeys]
    /\ au = NoAuction /\ gc = NoCache /\ tk = NoToken /\ tr = NoTransfer
    /\ XIdle /\ CommitIdle /\ CommitIdleRuntime

NextHost == CreateContractUserGroup \/ AddContractVersion \/ TakeHostBuffer

SpecHost == InitHost /\ [][NextHost]_vars

(***************************************************************************)
(* WasmEngine::precompile called by several threads.  GLOBAL_CACHE is one  *)
(* map from module bytes to artifact behind one mutex; the guard taken at  *)
(* the start of precompile is dropped when precompile returns.             *)
(***************************************************************************)
MaxThreads == 2
Threads == 1..MaxThreads
ModuleBytes == {"m1", "m2", "bad"}
Engines == {"e1", "e2"}
NoArtifact == "none"

\* Engine::precompile_module: the artifact the engine makes of the bytes, or
\* an error
precompile_module(engine, bytes) ==
    IF bytes = "bad" THEN "Err" ELSE <<bytes, engine>>

\* a mutex that is never held
mutex_never_held(g) == TRUE

\* GLOBAL_CACHE.lock(): the mutex can be taken when no thread holds it
mutex_free(g) == g.mutex = {}

InitPrecompile ==
    /\ \E calls \in [Threads -> ModuleBytes \X Engines] :
          gc = [cache |-> [b \in ModuleBytes |-> NoArtifact],
                mutex |-> {},
                threads |-> [t \in Threads |->
                               [pc |-> "call", bytes |-> calls[t][1],
                                engine |-> calls[t][2], res |-> "none"]],
                compiled |-> [b \in ModuleBytes |-> 0]]
    /\ au = NoAuction /\ tk = NoToken /\ tr = NoTransfer /\ hf = NoHost
    /\ XIdle /\ CommitIdle /\ CommitIdleRuntime

GcOnly == UNCHANGED <<rtVars, cmVars, xVars, au, tk, tr, hf>>

\* precompile: the lock is taken and the entry of the bytes looked up; an
\* occupied entry gives its artifact
PrecompileLookup ==
    /\ gc.threads # <<>>
    /\ \E t \in Threads :
          LET th == gc.threads[t]
              found == gc.cache[th.bytes]
          IN  /\ th.pc = "call"
              /\ mutex_free(gc)
              /\ gc' = [gc EXCEPT
                          !.mutex = {t},
                          !.threads[t] =
                              IF found # NoArtifact
                              THEN [th EXCEPT !.pc = "return", !.res = found]
                              ELSE [th EXCEPT !.pc = "vacant"]]
    /\ GcOnly

\* precompile, vacant entry: the module is compiled; the artifact is inserted,
\* an error returns at once and nothing is inserted
PrecompileCompile ==
    /\ gc.threads # <<>>
    /\ \E t \in Threads :
          LET th == gc.threads[t]
              precompiled_bytes == precompile_module(th.engine, th.bytes)
          IN  /\ th.pc = "vacant"
              /\ gc' = [gc EXCEPT
                          !.compiled[th.bytes] = gc.compiled[th.bytes] + 1,
                          !.cache[th.bytes] =
                              IF precompiled_bytes = "Err" THEN gc.cache[th.bytes]
                              ELSE precompiled_bytes,
                          !.threads[t] = [th EXCEPT !.pc = "return",
                                                    !.res = precompiled_bytes]]
    /\ GcOnly

\* precompile returns: the guard of the mutex is dropped
PrecompileReturn ==
    /\ gc.threads # <<>>
    /\ \E t \in Threads :
          /\ gc.threads[t].pc = "return"
          /\ gc' = [gc EXCEPT !.mutex = gc.mutex \ {t},
                              !.threads[t].pc = "done"]
    /\ GcOnly

NextPrecompile == PrecompileLookup \/ PrecompileCompile \/ PrecompileReturn

SpecPrecompile == InitPrecompile /\ [][NextPrecompile]_vars

(***************************************************************************)
(* The CEP18 token contract.  Amounts are u64, scaled down; an entry point *)
(* marked revert_on_error that returns an error reverts, and what it wrote *)
(* is dropped.                                                             *)
(***************************************************************************)
U64Max == 3
Addresses == {"admin", "alice"}
Amounts == 0..U64Max

\* u64::checked_add, checked_sub (-1: None), saturating_add, saturating_sub
checked_add(a, b) == IF a + b > U64Max THEN -1 ELSE a + b
checked_sub(a, b) == IF b > a THEN -1 ELSE a - b
saturating_add(a, b) == IF a + b > U64Max THEN U64Max ELSE a + b
saturating_sub(a, b) == IF b > a THEN 0 ELSE a - b

\* the security badges CEP18::new leaves: the installer is the admin
security_badges(address) == IF address = "admin" THEN "Admin" ELSE "none"

\* CEP18::sec_check
sec_check(caller, allowed_badge_list) ==
    IF security_badges(caller) \in allowed_badge_list THEN "Ok" ELSE "InsufficientRights"

\* the record of a call; `key` is the entry of allowances a query looked up,
\* `read` the amount it found there, `returned` whether it returned it
TokenCall(op, res) ==
    [op |-> op, res |-> res, owner |-> "-", spender |-> "-", key |-> <<>>,
     read |-> 0, returned |-> FALSE]

\* the token after a call that returned res: reverted unless Ok
TokenReturned(t, op, res) ==
    IF res = "Ok" THEN [t EXCEPT !.last = TokenCall(op, res)]
    ELSE [tk EXCEPT !.last = TokenCall(op, res)]

InitToken ==
    /\ tk = [enable_mint_burn |-> TRUE, total_supply |-> 0,
             balances |-> [a \in Addresses |-> 0],
             allowances |-> [k \in Addresses \X Addresses |-> 0],
             last |-> TokenCall("new", "Ok")]
    /\ au = NoAuction /\ gc = NoCache /\ tr = NoTransfer /\ hf = NoHost
    /\ XIdle /\ CommitIdle /\ CommitIdleRuntime

TkOnly == UNCHANGED <<rtVars, cmVars, xVars, au, gc, tr, hf>>
Installed == tk.balances # <<>>

\* CEP18::transfer_balance: the balances afterwards and the result
transfer_balance(balances, sender, recipient, amount) ==
    LET new_sender_balance == checked_sub(balances[sender], amount)
        new_recipient_balance == checked_add(balances[recipient], amount)
        sent == [balances EXCEPT ![sender] = new_sender_balance]
    IN  IF amount = 0 THEN [balances |-> balances, res |-> "Ok"]
        ELSE IF new_sender_balance = -1
        THEN [balances |-> balances, res |-> "InsufficientBalance"]
        ELSE IF new_recipient_balance = -1
        THEN [balances |-> balances, res |-> "Overflow"]
        ELSE [balances |-> [sent EXCEPT ![recipient] = new_recipient_balance],
              res |-> "Ok"]

\* CEP18::allowance: the entry of (spender, owner) is read and dropped
Allowance ==
    /\ Installed
    /\ \E spender \in Addresses, owner \in Addresses :
          tk' = [tk EXCEPT !.last = [TokenCall("allowance", "Ok") EXCEPT
                                        !.owner = owner, !.spender = spender,
                                        !.key = <<spender, owner>>,
                                        !.read = tk.allowances[<<spender, owner>>],
                                        !.returned = FALSE]]
    /\ TkOnly

Approve ==
    /\ Installed
    /\ \E owner \in Addresses, spender \in Addresses, amount \in Amounts :
          tk' = IF owner = spender
                THEN TokenReturned(tk, "approve", "CannotTargetSelfUser")
                ELSE TokenReturned([tk EXCEPT !.allowances[<<owner, spender>>] = amount],
                              "approve", "Ok")
    /\ TkOnly

DecreaseAllowance ==
    /\ Installed
    /\ \E owner \in Addresses, spender \in Addresses, amount \in Amounts :
          LET lookup_key == <<owner, spender>>
              allowance == saturating_sub(tk.allowances[lookup_key], amount)
          IN  tk' = IF owner = spender
                    THEN TokenReturned(tk, "decrease_allowance", "CannotTargetSelfUser")
                    ELSE TokenReturned([tk EXCEPT !.allowances[lookup_key] = allowance],
                                  "decrease_allowance", "Ok")
    /\ TkOnly

IncreaseAllowance ==
    /\ Installed
    /\ \E owner \in Addresses, spender \in Addresses, amount \in Amounts :
          LET lookup_key == <<owner, spender>>
              allowance == saturating_add(tk.allowances[lookup_key], amount)
          IN  tk' = IF owner = spender
                    THEN TokenReturned(tk, "increase_allowance", "CannotTargetSelfUser")
                    ELSE TokenReturned([tk EXCEPT !.allowances[lookup_key] = allowance],
                                  "increase_allowance", "Ok")
    /\ TkOnly

Transfer ==
    /\ Installed
    /\ \E sender \in Addresses, recipient \in Addresses, amount \in Amounts :
          LET b == transfer_balance(tk.balances, sender, recipient, amount)
          IN  tk' = IF sender = recipient
                    THEN TokenReturned(tk, "transfer", "CannotTargetSelfUser")
                    ELSE TokenReturned([tk EXCEPT !.balances = b.balances], "transfer", b.res)
    /\ TkOnly

TransferFrom ==
    /\ Installed
    /\ \E spender \in Addresses, owner \in Addresses, recipient \in Addresses,
          amount \in Amounts :
          LET new_spender_allowance ==
                  checked_sub(tk.allowances[<<owner, spender>>], amount)
              b == transfer_balance(tk.balances, owner, recipient, amount)
          IN  tk' = IF owner = recipient
                    THEN TokenReturned(tk, "transfer_from", "CannotTargetSelfUser")
                    ELSE IF amount = 0 THEN TokenReturned(tk, "transfer_from", "Ok")
                    ELSE IF new_spender_allowance = -1
                    THEN TokenReturned(tk, "transfer_from", "InsufficientAllowance")
                    ELSE TokenReturned([tk EXCEPT
                                      !.balances = b.balances,
                                      !.allowances[<<owner, spender>>] =
                                          new_spender_allowance],
                                  "transfer_from", b.res)
    /\ TkOnly

Mint ==
    /\ Installed
    /\ \E caller \in Addresses, owner \in Addresses, amount \in Amounts :
          LET checked == sec_check(caller, {"Admin", "Minter"})
              new_balance == checked_add(tk.balances[owner], amount)
              total_supply == checked_add(tk.total_supply, amount)
          IN  tk' = IF ~tk.enable_mint_burn THEN TokenReturned(tk, "mint", "MintBurnDisabled")
                    ELSE IF checked # "Ok" THEN TokenReturned(tk, "mint", checked)
                    ELSE IF new_balance = -1 \/ total_supply = -1
                    THEN TokenReturned(tk, "mint", "Overflow")
                    ELSE TokenReturned([tk EXCEPT !.balances[owner] = new_balance,
                                             !.total_supply = total_supply],
                                  "mint", "Ok")
    /\ TkOnly

\* CEP18::burn: the amount is added to the balance of the owner and taken
\* from the total supply
Burn ==
    /\ Installed
    /\ \E caller \in Addresses, owner \in Addresses, amount \in Amounts :
          LET new_balance == checked_add(tk.balances[owner], amount)
              total_supply == checked_sub(tk.total_supply, amount)
          IN  tk' = IF ~tk.enable_mint_burn THEN TokenReturned(tk, "burn", "MintBurnDisabled")
                    ELSE IF owner # caller THEN TokenReturned(tk, "burn", "InvalidBurnTarget")
                    ELSE IF new_balance = -1 \/ total_supply = -1
                    THEN TokenReturned(tk, "burn", "Overflow")
                    ELSE TokenReturned([tk EXCEPT !.balances[owner] = new_balance,
                                             !.total_supply = total_supply],
                                  "burn", "Ok")
    /\ TkOnly

NextToken ==
    \/ Allowance
    \/ Approve
    \/ DecreaseAllowance
    \/ IncreaseAllowance
    \/ Transfer
    \/ TransferFrom
    \/ Mint
    \/ Burn

SpecToken == InitToken /\ [][NextToken]_vars

(***************************************************************************)
(* Properties.                                                             *)
(***************************************************************************)
\* the step is a host function call whose charge succeeded
HostStep == steps' = steps + 1 /\ err' # "GasLimit"

\* host functions that stage their result in the host buffer
StagingOps == {"read_value", "call_contract", "call_versioned_contract"}

\* C1: a failed execution returns the journal the tracking copy had just
\* before the execution started, whichever Executor entry point ran it.
C1_FailureJournalIsSnapshot ==
    result.tag = "Failure" => result.journal = snapshot

TopGas == Top.gas

FromExec == kind \in {"exec_module", "exec_contract"}

SystemToSystem(i) == is_system_contract(stack[i - 1].key) /\ is_system_contract(stack[i].key)

\* C7 as stated: a URef enters another frame's access rights, as a call
\* argument or as a returned value, only if the passing frame holds every
\* rights bit of it.
C7_OnlyHeldURefsPass ==
    /\ ~retForged
    /\ \A i \in 2..Depth : \A u \in stack[i].args :
           validate_uref(stack[i - 1].rights, u) /\ RightsOf({u}) \subseteq stack[i].rights

\* C7: a URef enters another frame's access rights, as a call argument or as
\* a returned value, only if the passing frame holds every rights bit of it,
\* except for the arguments of a call from one system contract to another;
\* a call or ret refused with ForgedReference propagates as that error.
C7_OnlyHeldURefsPassUnlessSystem ==
    /\ ~retForged
    /\ \A i \in 2..Depth : \A u \in stack[i].args :
           /\ SystemToSystem(i) \/ validate_uref(stack[i - 1].rights, u)
           /\ RightsOf({u}) \subseteq stack[i].rights
    /\ lastOp.rc = "ForgedReference" => (err = "ForgedReference" /\ Top.pend \in {"none", "restore"})

\* a contract passed on a URef it holds to the contract it called
C7_Witness ==
    /\ Depth = 3
    /\ stack[3].args = {<<"p1", {"R"}>>}
    /\ ~SystemToSystem(3)
    /\ validate_uref(stack[2].rights, <<"p1", {"R"}>>)

\* frame i runs non-system code called by a non-system caller
UserToUser(i) ==
    /\ ~sysAcct
    /\ stack[i].code = "wasm"
    /\ IF i = 1 THEN kind = "exec_module"
       ELSE ~is_system_contract(stack[i - 1].key) /\ ~is_system_contract(stack[i].key)

\* C8: when a non-system caller invokes a non-system callee, and when exec
\* starts a session module, every occurrence of the account's main purse in
\* the arguments the callee sees carries at most the WRITE right.
C8_MainPurseAttenuated ==
    \A i \in 1..Depth : UserToUser(i) =>
        \A u \in stack[i].args : u[1] = MainPurse => u[2] \subseteq WRITE

\* a stored contract was called with the main purse and sees it write-only
C8_Witness ==
    /\ Depth >= 2
    /\ UserToUser(Depth)
    /\ <<MainPurse, WRITE>> \in Top.args

CallOps == {"call_contract", "call_versioned_contract", "call_contract_with_stack"}

\* the last operation was a call that reached execute_contract
CallMade == lastOp.op \in CallOps /\ lastOp.from # "-" /\ lastOp.rc # "HostBufferFull"

\* ... made by a Contract frame to an entry point of type Session
ContractToSession ==
    CallMade /\ lastOp.from = "Contract" /\ EntryPointType(lastOp.tgt, lastOp.ep) = "Session"

\* no frame of type Session runs directly above a frame of type Contract
NoSessionAboveContract ==
    \A i \in 2..Depth : stack[i - 1].ep_type = "Contract" => stack[i].ep_type # "Session"

\* C9 as stated: every call from a Contract frame to a Session entry point is
\* rejected with InvalidContext before a frame is pushed.
C9_ContractToSessionInvalidContext ==
    /\ ContractToSession => (lastOp.rc = "InvalidContext" /\ err = "InvalidContext")
    /\ NoSessionAboveContract

\* C9: every call from a Contract frame to a Session entry point is rejected
\* before a frame is pushed or callee code runs; the error is InvalidContext
\* unless the target is disabled, which is found first and reported as
\* DisabledContract (by hash) or InvalidContractVersion (by version).
C9_ContractToSessionRejected ==
    /\ ContractToSession =>
          /\ err = lastOp.rc
          /\ Top.ep_type = "Contract"
          /\ IF is_contract_enabled(lastOp.tgt) THEN lastOp.rc = "InvalidContext"
             ELSE IF lastOp.by = "hash" THEN lastOp.rc = "DisabledContract"
             ELSE lastOp.rc = "InvalidContractVersion"
    /\ NoSessionAboveContract

\* a stored contract called a session entry point and was refused
C9_Witness ==
    /\ ContractToSession
    /\ lastOp.rc = "InvalidContext"
    /\ Top.hash = "cA"
    /\ lastOp.tgt = "cA"

\* ... to a contract that is disabled in its package and is not a system contract
DisabledCall ==
    CallMade /\ lastOp.tgt \in UserContracts /\ ~is_contract_enabled(lastOp.tgt)

\* C10: a call into a disabled contract that is not a system contract is
\* rejected and runs no callee code, by hash or by package version; by hash
\* the error is DisabledContract.
C10_DisabledContractRejected ==
    /\ DisabledCall =>
          /\ err = lastOp.rc
          /\ lastOp.rc \in {"DisabledContract", "InvalidContractVersion"}
          /\ lastOp.by = "hash" => lastOp.rc = "DisabledContract"
    /\ \A i \in 1..Depth : stack[i].hash \in UserContracts => is_contract_enabled(stack[i].hash)

\* a call by hash to the disabled contract was refused
C10_Witness ==
    /\ DisabledCall
    /\ lastOp.by = "hash"
    /\ lastOp.tgt = "cB"
    /\ lastOp.rc = "DisabledContract"
    /\ Depth = 1

\* the commit returned an error
CommitFailed == commitRes \notin {"none", "Ok"}

\* C2: commit is all-or-nothing: while it runs and after it returned an
\* error, the durable store holds exactly what it held when the commit
\* started, however many transforms were applied before the error; a
\* reader only ever sees the store as it was between two commits.
C2_CommitAllOrNothing ==
    /\ (txnOpen \/ CommitFailed) => durable = before
    /\ observed \in boundaries

\* the second transform failed after the first was applied and written
C2_Witness ==
    /\ CommitFailed
    /\ commitRes \in {"KeyNotFound", "TransformError"}
    /\ applied = 1
    /\ state_root \notin durable

\* a step in which a callee of entry point type `child` leaves the stack and
\* its caller of type `from` resumes
Returns(from, child) ==
    /\ Depth >= 2
    /\ Len(stack') = Depth - 1
    /\ Caller.ep_type = from
    /\ Top.ep_type = child

\* C11: when session code called by session code returns successfully, by a
\* clean exit or by ret, the caller's named keys are the callee's named
\* keys as of its return.
C11_SessionNamedKeysFromCallee ==
    [][Returns("Session", "Session") /\ err' = "none" /\ result'.tag = "none"
          => stack'[Depth - 1].nk = Top.nk]_vars

\* session code called by session code added a named key and exited; the
\* caller, which added none, holds it
C11_Witness ==
    /\ lastOp.op = "clean_exit" /\ lastOp.rc = "Ok"
    /\ lastOp.from = "Session" /\ lastOp.child = "Session"
    /\ kind = "exec_contract"
    /\ lastOp.keys = {"a", "k"}
    /\ Top.nk = {"a", "k"}

\* C12: when a Contract entry point called by session code leaves the stack,
\* the caller's named keys are what they were before the call.
C12_ContractLeavesCallerNamedKeys ==
    [][Returns("Session", "Contract") => stack'[Depth - 1].nk = Caller.nk]_vars

\* a stored contract added a named key and exited; its session caller holds
\* the named keys it had
C12_Witness ==
    /\ lastOp.op = "clean_exit" /\ lastOp.rc = "Ok"
    /\ lastOp.from = "Session" /\ lastOp.child = "Contract"
    /\ lastOp.keys = {"c", "k"}
    /\ Top.nk = {"a"}

\* the remaining spending limit of the runtime that currently executes
TopLimit == Top.limit

\* C13: the remaining spending limit never increases during an execution,
\* across host calls, nested calls, native system contract calls and the
\* returns from them.
C13_SpendingLimitNeverIncreases ==
    [][stack'[Len(stack')].limit <= TopLimit]_vars

\* a step that starts the native runtime of a system contract entry point
SystemCallStarts ==
    /\ Depth >= 1
    /\ Len(stack') = Depth + 1
    /\ stack'[Depth + 1].code \in SystemContracts
    /\ err' = "none"

\* the entry point cost was not charged to the native runtime
Uncharged == stack'[Depth + 1].gas = stack'[Depth].gas

\* C14 as stated: the cost of a system contract call is left uncharged only
\* if the immediate caller is a system contract or the runtime is inside a
\* host function scope.
C14_UnchargedOnlyForSystemCallerOrScope ==
    [][SystemCallStarts /\ Uncharged
          => is_system_contract(Top.hash) \/ hfDepth' > 0]_vars

\* C14: the cost of a system contract call is left uncharged exactly when
\* the runtime is inside a host function scope, or the immediate caller is a
\* system contract, or the immediate caller is the session of the system
\* account; in every other situation it is charged.
C14_UnchargedIffSystemCallerOrScope ==
    [][SystemCallStarts
          => (Uncharged <=> \/ hfDepth' > 0
                            \/ is_system_contract(Top.hash)
                            \/ Top.hash = "acct" /\ sysAcct)]_vars

\* the session of the system account called a system contract outside any
\* host function scope and nothing was charged
C14_Witness ==
    /\ lastOp.op = "call_contract_with_stack" /\ lastOp.rc = "called"
    /\ sysAcct /\ hfDepth = 0
    /\ Depth = 2
    /\ Top.code \in SystemContracts
    /\ stack[1].hash = "acct"
    /\ Top.gas = 0 /\ charged = 0

\* the native runtime of the auction, which has called the mint, hands its
\* result to its caller
AuctionReturns ==
    /\ Depth >= 2
    /\ Top.code = "auction"
    /\ Top.rv.d = "paid"
    /\ lastOp'.op = "native_return" /\ lastOp'.rc = "Ok"

\* no mint runtime started by a system contract has been charged anything,
\* unless it ran out of gas
InnerMintUncharged ==
    \A i \in 2..Depth :
        stack[i].code = "mint" /\ stack[i - 1].code \in SystemContracts
            => \/ stack[i].gas = stack[i].g0
               \/ stack[i].gas = GasLimit /\ stack[i].rv.d = "Err"

\* C15 as stated: a system contract entry point that calls the mint adds its
\* own system contract call cost to the gas counter of its caller, and the
\* inner mint call adds nothing.
C15_OuterCostOnly ==
    [][AuctionReturns => stack'[Depth - 1].gas = Caller.gas + SystemCallCost]_vars

\* C15: a system contract entry point that calls the mint adds to the gas
\* counter of its caller what was charged for the outer entry point: its
\* system contract call cost, or nothing where that cost is not charged (a
\* system caller); the inner mint call is not charged and adds nothing.
C15_InnerMintAddsNothing ==
    [][/\ InnerMintUncharged'
       /\ AuctionReturns
             => stack'[Depth - 1].gas
                  = Caller.gas + (IF \/ Caller.hash = "acct" /\ sysAcct
                                     \/ is_system_contract(Caller.hash)
                                  THEN 0 ELSE SystemCallCost)]_vars

\* the auction, called for an ordinary account, paid through the mint and
\* returned: the cost of the outer entry point is all that was charged
C15_Witness ==
    /\ kind = "system_call" /\ ~sysAcct
    /\ lastOp.op = "native_return" /\ lastOp.rc = "Ok"
    /\ Depth = 1 /\ Top.key = "auction"
    /\ journal = <<"nonce", "transfer">>
    /\ Top.gas = SystemCallCost
    /\ charged = SystemCallCost

\* execute_contract handles the Error::Ret of a callee whose ret passed a
\* value with URefs the callee holds
RetHandled ==
    /\ Depth >= 2
    /\ Top.pc = "ret"
    /\ Top.hb # NoValue
    /\ lastOp'.op = "ret_return"

\* C16: when a callee calls ret with a value, the caller receives exactly
\* that value (staged in its host buffer when it called through
\* call_contract), and every URef of the value is in the caller's access
\* rights.
C16_RetDeliversValue ==
    [][RetHandled
          => /\ Len(stack') = Depth - 1
             /\ stack'[Depth - 1].rv = Top.hb
             /\ Caller.pend = "call" => stack'[Depth - 1].hb = Top.hb
             /\ \A u \in Top.hb.u : validate_uref(stack'[Depth - 1].rights, u)]_vars

\* the step is a read_host_buffer that got past its gas charge
ReadsHostBuffer == lastOp'.op = "read_host_buffer" /\ lastOp'.rc # "trap"

\* the step before was one
HasReadHostBuffer == lastOp.op = "read_host_buffer" /\ lastOp.rc # "trap"

\* C17: read_host_buffer leaves the host buffer empty; it delivers only a
\* staged value and answers HostBufferEmpty when there is none, so a second
\* read_host_buffer with no staging in between answers HostBufferEmpty, and
\* a staging operation that comes next is not refused with HostBufferFull.
C17_ReadClearsHostBuffer ==
    [][/\ ReadsHostBuffer
             => /\ stack'[Depth].hb = NoValue
                /\ lastOp'.rc = "Ok" => Top.hb # NoValue
                /\ Top.hb = NoValue => lastOp'.rc = "HostBufferEmpty"
       /\ HasReadHostBuffer /\ ReadsHostBuffer => lastOp'.rc = "HostBufferEmpty"
       /\ HasReadHostBuffer /\ lastOp'.op \in StagingOps
             => lastOp'.rc # "HostBufferFull"]_vars

\* read_host_buffer delivered the value a call had staged, and the buffer is
\* empty
C17_Witness ==
    /\ lastOp.op = "read_host_buffer" /\ lastOp.rc = "Ok"
    /\ Top.hb = NoValue
    /\ Top.rv # NoValue

\* C18: the runtime made for a call starts with an empty host buffer of its
\* own, and no step changes the host buffer of a runtime that is below the
\* top of the stack before and after the step, that is, of a caller whose
\* callee runs.
C18_HostBufferPerRuntime ==
    [][/\ Len(stack') = Depth + 1 => stack'[Depth + 1].hb = NoValue
       /\ \A i \in 1..Depth :
             i < Depth /\ i < Len(stack') => stack'[i].hb = stack[i].hb
       /\ Len(stack') = Depth + 1 => stack'[Depth].hb = Top.hb]_vars

\* a runtime that holds a staged value has called the mint, which has run
\* in a runtime whose buffer is empty
C18_Witness ==
    /\ Depth >= 2
    /\ Caller.hb # NoValue
    /\ Top.pc = "done"
    /\ Top.hb = NoValue

\* C19: the call stack of every runtime is non-empty and its first element
\* is a Session element; a stored contract or stored session element never
\* sits at position 1.
C19_FirstFrameIsSession ==
    \A i \in 1..Depth :
        /\ Len(stack[i].cs) >= 1
        /\ stack[i].cs[1].t = "Session"

\* a runtime two calls deep: its call stack holds the session element and
\* the elements of both calls, the last one a stored contract
C19_Witness ==
    /\ Depth >= 3
    /\ Len(Top.cs) >= 3
    /\ Top.cs[Len(Top.cs)].t = "StoredContract"

\* the step is the dictionary operation `op` on an item key longer than
\* DICTIONARY_ITEM_KEY_MAX_LENGTH, and its gas charge did not reach the limit
OverLong(op) ==
    /\ HostStep
    /\ lastOp'.op = op
    /\ lastOp'.key.len > DICTIONARY_ITEM_KEY_MAX_LENGTH

\* but for the gas counter of the running runtime, the step changed neither
\* a runtime nor the journal
Untouched ==
    /\ Len(stack') = Depth
    /\ [stack' EXCEPT ![Depth].gas = Top.gas] = stack
    /\ journal' = journal

C21_ChargedFirst ==
    [][steps' = steps + 1
          => LET c == charge_gas(Top.gas, HostCost)
             IN  /\ stack'[Depth].gas = c.gas
                 /\ ~c.ok => err' = "GasLimit" /\ journal' = journal]_vars

\* the module exceeds a limit of the WasmConfig
ExceedsLimit(m, c) ==
    \/ m.has_memory /\ m.memory_max > c.max_memory
    \/ m.tables >= 1 /\ (m.table_initial > c.max_table_size
                           \/ m.table_max > c.max_table_size)
    \/ m.br_table > c.br_table_max_size
    \/ m.globals > c.max_globals
    \/ m.params > c.max_parameter_count

\* C22: preprocess rejects every module that exceeds a limit of the
\* engine's WasmConfig (memory maximum, table size, br_table size, number of
\* globals, number of parameters): no such module comes out of it.
C22_OverLimitRejected ==
    (pp.out # <<>> /\ ExceedsLimit(pp.module, pp.config)) => pp.out.rc # "Ok"

\* C23: an execution that ran out of gas ends in a Failure whose error is
\* GasLimit and whose cost is the gas limit of the execution.
C23_OutOfGasCostsTheLimit ==
    /\ (result.tag \in {"Success", "Failure"} /\ err = "GasLimit")
          => result.tag = "Failure" /\ result.error = "GasLimit"
    /\ (result.tag = "Failure" /\ result.error = "GasLimit")
          => result.cost = GasLimit

\* C24: when an entry point of the mint, of handle payment or of the auction
\* that is run natively fails with the error code GasLimit, the call fails
\* with the execution error GasLimit.
C24_GasLimitCodePromoted ==
    [][lastOp'.rc = "GasLimitCode" => err' = "GasLimit"]_vars


\* C25: during write_root_to_db a trie is written only after every dirty
\* child of it has been written, so neither the open transaction nor the
\* durable store ever holds a trie one of whose children is missing
C25_ChildrenBeforeParents ==
    LET written == ts.store \cup ts.txn
    IN  /\ \A d \in ts.txn : \A c \in ts.children[d] :
              ts.cache[c] = "dirty" => c \in ts.txn
        /\ Closed(ts.children, written)
        /\ Closed(ts.children, ts.store)

\* a root with a dirty child that has a dirty child of its own was written
C25_Witness ==
    /\ ts.phase = "done" /\ ts.res = "Ok"
    /\ \E d \in ts.store, c \in ts.store, g \in ts.store :
          /\ c \in ts.children[d] /\ g \in ts.children[c]
          /\ ts.cache[d] = "dirty" /\ ts.cache[c] = "dirty" /\ ts.cache[g] = "dirty"


\* C26: for writes on disjoint key sets, committing the first sequence and
\* then the second at the root that gave ends at the same post-state root,
\* with the same outcome, as committing both in one map
C26_CommitComposes ==
    cc.first # <<>> =>
        /\ cc.second.res = cc.whole.res
        /\ cc.second.root = cc.whole.root

\* two commits of one write each, on different keys, at a known root
C26_Witness ==
    /\ cc.first # <<>> /\ cc.second.res = "Ok"
    /\ Len(cc.t1) = 1 /\ Len(cc.t2) = 1
    /\ cc.first.root # cc.root /\ cc.second.root # cc.first.root


\* the calls that report what a peer did or knows
DataCalls == {"new_partial_data", "new_complete_data", "we_infected",
              "already_infected", "check_timeout", "remove_holder_if_unresponsive"}

\* the entry of held data has reached one of the two limits
AtLimit(t) == t.st.held_by_us /\ is_finished(t.st, t.infection_target, t.holders_limit)

\* C27: for held data, gossiping finishes exactly when the peers infected by
\* us reach infection_target or the known holders reach holders_limit: the
\* entry is moved to finished only by a response that reaches a limit, an
\* entry at a limit is not left in current, and every later call for a
\* finished id returns Noop.
C27_FinishesExactlyAtLimit ==
    [][/\ gt'.where = "current" => ~AtLimit(gt')
       /\ gt'.where = "finished" /\ gt.where \in {"current", "paused"}
            => \/ Cardinality(gt.st.infected_by_us) + 1 >= gt.infection_target
               \/ Cardinality(gt.st.holders) + 1 >= gt.holders_limit
       /\ gt.where = "finished" /\ gt'.last.op \in DataCalls
            => gt'.last.action = "Noop" /\ gt'.where = "finished"]_vars

\* C28: while the id is paused and a call does not purge its entry, no call
\* that reports what a peer did or knows returns an action other than Noop
\* or moves the id into current; resume does
C28_PausedStaysPaused ==
    [][(/\ gt.where = "paused" /\ purge_finished(gt).where = "paused"
        /\ gt'.last.op \in DataCalls)
            => gt'.last.action = "Noop" /\ gt'.where # "current"]_vars

\* new data from a peer was reported for a paused id, which stayed paused
C28_Witness ==
    /\ gt.where = "paused" /\ gt.last.from = "paused"
    /\ gt.last.op = "new_complete_data" /\ gt.st.holders # {}


RECURSIVE SumApprovals(_)
SumApprovals(txs) ==
    IF txs = <<>> THEN 0 ELSE Head(txs).approvals + SumApprovals(Tail(txs))

\* the limits of the block hold
WithinLimits(b) ==
    /\ Len(b.transfers) <= b.config.block_max_transfer_count
    /\ Len(b.deploys) <= b.config.block_max_standard_count
    /\ b.total_approvals <= b.config.block_max_approval_count
    /\ b.total_approvals = SumApprovals(b.transfers) + SumApprovals(b.deploys)
    /\ b.total_size <= b.config.max_block_size
    /\ b.total_gas <= b.config.block_gas_limit
    /\ LET all == b.transfers \o b.deploys
       IN  \A i, j \in 1..Len(all) : i # j => all[i].hash # all[j].hash

C30_ApprovalsLeftForEverySlot ==
    ab.last.res = "Ok" =>
        ab.config.block_max_approval_count - ab.total_approvals
            >= (ab.config.block_max_transfer_count - Len(ab.transfers))
               + (ab.config.block_max_standard_count - Len(ab.deploys))

\* a transaction with two approvals was added and slots remain
C30_Witness ==
    /\ ab.last.res = "Ok" /\ ab.last.approvals = 2
    /\ Len(ab.transfers) + Len(ab.deploys) >= 2
    /\ Len(ab.transfers) + Len(ab.deploys)
         < ab.config.block_max_transfer_count + ab.config.block_max_standard_count


\* the stored bid of a public key: the stake of a released founding
\* validator, or the amount of the active bid
StoredBid(a, public_key) ==
    IF a.founding_validators[public_key].known
    THEN a.founding_validators[public_key].staked_amount
    ELSE a.active_bids[public_key].bid_amount

\* C31: after withdraw_bid succeeds the stored bid of the public key is
\* lower by quantity than before, and the quantity returned is the stored
\* amount that remains
C31_WithdrawLowersBid ==
    [][au'.last.res = "Ok"
          => /\ StoredBid(au', au'.last.public_key)
                  = StoredBid(au, au'.last.public_key) - au'.last.quantity
             /\ au'.last.new_quantity = StoredBid(au', au'.last.public_key)]_vars


\* a step in which a nested call returned successfully to its caller
NestedCallReturned ==
    /\ Depth >= 2
    /\ Len(stack') = Depth - 1
    /\ lastOp'.op \in {"clean_exit", "ret_return", "native_return"}
    /\ lastOp'.rc \notin {"ExpectedReturnValue", "panic", "GasLimit"}
    /\ err' = "none"

\* C32: after a nested call returns successfully (clean exit, ret, or a
\* native mint, handle payment or auction entry point), the remaining
\* spending limit of the caller is the one the callee had at its return.
C32_CallerTakesCalleeLimit ==
    [][NestedCallReturned => stack'[Len(stack')].limit = TopLimit]_vars


\* a step in which read_host_buffer returned BufferTooSmall
ReadTooSmall ==
    /\ Depth >= 1 /\ Len(stack') = Depth
    /\ lastOp'.op = "read_host_buffer" /\ lastOp'.rc = "BufferTooSmall"

\* C33: a read_host_buffer with a destination smaller than the staged value
\* returns BufferTooSmall and leaves the staged value in the host buffer.
C33_TooSmallKeepsStagedValue ==
    [][ReadTooSmall => stack'[Len(stack')].hb = Top.hb]_vars


RecoverableApiErrors ==
    {"GroupAlreadyExists", "MaxGroupsExceeded", "MaxTotalURefsExceeded",
     "HostBufferFull", "BufferTooSmall"}

\* C35: a host function call that returns a recoverable ApiError code to the
\* guest has changed neither global state, nor the address generator, nor the
\* access rights and named keys of the caller.
C35_RecoverableErrorChangesNothing ==
    [][hf'.last.rc \in RecoverableApiErrors
          => /\ hf'.package = hf.package /\ hf'.written = hf.written
             /\ hf'.address_generator = hf.address_generator
             /\ hf'.rights = hf.rights /\ hf'.nk = hf.nk]_vars


\* the threads that have returned from precompile for the bytes b
Returned(b) == {t \in Threads : gc.threads[t].pc = "done" /\ gc.threads[t].bytes = b}

\* C36 as stated: whatever the bytes, they are compiled at most once.
C36_CompiledAtMostOnce ==
    gc.threads # <<>> => \A b \in ModuleBytes : gc.compiled[b] <= 1

\* C36, amended: bytes that compile are compiled at most once, and every
\* caller that has returned holds the one artifact the cache holds for them,
\* whatever its engine; bytes that fail to compile are never cached and
\* every caller of them has compiled them itself and holds the error.
C36_CompiledOncePerArtifact ==
    gc.threads # <<>> =>
        \A b \in ModuleBytes :
            IF precompile_module("e1", b) # "Err"
            THEN /\ gc.compiled[b] <= 1
                 /\ \A t \in Returned(b) :
                       /\ gc.threads[t].res = gc.cache[b]
                       /\ gc.cache[b] # NoArtifact /\ gc.compiled[b] = 1
            ELSE /\ gc.cache[b] = NoArtifact
                 /\ gc.compiled[b] >= Cardinality(Returned(b))
                 /\ \A t \in Returned(b) : gc.threads[t].res = "Err"

\* two threads with different engines have returned for the same bytes, which
\* were compiled once
C36_Witness ==
    /\ gc.threads # <<>>
    /\ \E t1, t2 \in Threads :
          /\ t1 # t2
          /\ gc.threads[t1].pc = "done" /\ gc.threads[t2].pc = "done"
          /\ gc.threads[t1].bytes = "m1" /\ gc.threads[t2].bytes = "m1"
          /\ gc.threads[t1].engine # gc.threads[t2].engine
          /\ gc.threads[t1].res = gc.threads[t2].res
          /\ gc.compiled["m1"] = 1


\* C37: for a data id this node holds, the gossip requests the table asked
\* for that were neither answered nor timed out are never more than
\* infection_target, whatever the order of new_complete_data, responses and
\* timeouts.
C37_OutstandingWithinTarget ==
    gt.infection_target > 0 => Cardinality(gt.outstanding) <= gt.infection_target


RECURSIVE SumBalances(_, _)
\* the sum of the balances of the addresses in S
SumBalances(balances, S) ==
    IF S = {} THEN 0
    ELSE LET a == CHOOSE x \in S : TRUE
         IN  balances[a] + SumBalances(balances, S \ {a})

\* C38: after any sequence of successful mint, burn, transfer and
\* transfer_from calls, total_supply is the sum of all balances.
C38_SupplyIsSumOfBalances ==
    tk.balances # <<>> => tk.total_supply = SumBalances(tk.balances, Addresses)

\* C39: the allowance query for owner O and spender S looks up the entry of
\* (O, S), the one approve, increase_allowance, decrease_allowance and
\* transfer_from maintain, and gives the amount stored there.
C39_AllowanceReadsStoredEntry ==
    [][tk'.last.op = "allowance"
          => /\ tk'.last.key = <<tk'.last.owner, tk'.last.spender>>
             /\ tk'.last.returned
             /\ tk'.last.read = tk.allowances[<<tk'.last.owner, tk'.last.spender>>]]_vars

=============================================================================
